---- MODULE Spec2Model ----
(***************************************************************************)
(* Terrain tile paging engine of rocky: the TileNodeRegistry (key->tile    *)
(* map, tracker, six work queues), the per-tile async slots it drives, and *)
(* the jobs / merge operations it dispatches.                              *)
(*                                                                         *)
(* Built without LOAD_ELEVATION_SEPARATELY (TileNodeRegistry.cpp:24 is     *)
(* commented out), so every #ifdef LOAD_ELEVATION_SEPARATELY block is      *)
(* absent and every #else / #ifndef block is present.                      *)
(***************************************************************************)
EXTENDS Integers, Sequences, FiniteSets, TLC

\* ------------------------------------------------------------------ bounds
\* pings the traversal may issue between two update() calls
MaxPings == 2
\* cap on the lengths of _loadElevation and _mergeElevation, which the build
\* never drains
MaxLoadElevation == 2

\* the deepest level of detail of the keys that are derived
MaxLod == 3

\* the traversal ranges are the squares of 0..MaxRoot
MaxRoot == 3

\* most removals pending at once
MaxRemove == 2

\* ------------------------------------------------------------- tile keys
\* TileKey is (lod, x, y); TileKey::INVALID is what createParentKey returns
\* at lod 0.
INVALID == <<-1, 0, 0>>

createChildKey(k, quadrant) ==
    <<k[1] + 1,
      2 * k[2] + (IF quadrant \in {1, 3} THEN 1 ELSE 0),
      2 * k[3] + (IF quadrant \in {2, 3} THEN 1 ELSE 0)>>

createParentKey(k) ==
    IF k[1] = 0 THEN INVALID ELSE <<k[1] - 1, k[2] \div 2, k[3] \div 2>>

\* --------------------------------------------------------- tile objects
\* The tile objects handed to ping: one root, two of its four children
\* (quadrants 0 and 1) and one grandchild.  ping is a public entry point and
\* takes any tile createTile has returned.
NoTile == "null"
Tiles == {"R", "A", "B", "G"}

RootKey == <<0, 0, 0>>

\* TerrainTileNode::parent, as passed to createTile
tileParent ==
    [t \in Tiles |-> CASE t = "R" -> NoTile
                       [] t = "A" -> "R"
                       [] t = "B" -> "R"
                       [] t = "G" -> "A"]

\* the quadrant a child tile was created for
tileQuadrant ==
    [t \in Tiles |-> CASE t = "R" -> 0
                       [] t = "A" -> 0
                       [] t = "B" -> 1
                       [] t = "G" -> 0]

\* TerrainTileNode::key
RECURSIVE tileKey(_)
tileKey(t) ==
    IF tileParent[t] = NoTile THEN RootKey
    ELSE createChildKey(tileKey(tileParent[t]), tileQuadrant[t])

\* TerrainTileNode::doNotExpire: set on the root tiles only
doNotExpire == [t \in Tiles |-> tileParent[t] = NoTile]

Keys == {tileKey(t) : t \in Tiles}

\* states of a Future slot
Empty == "empty"
Working == "working"
Available == "available"
SlotStates == {Empty, Working, Available}

Slots == {"dataLoader", "dataMerger", "elevationLoader", "elevationMerger",
          "childrenLoader"}

Sentry == "sentry"

\* the sets of tiles createTile may have returned in one run: a root with two
\* sibling children, or a root, a child and a grandchild
TileSets == {{"R", "A", "B"}, {"R", "A", "G"}}

VARIABLES
    created,          \* the tiles createTile has returned
    _tiles,           \* TileTable: key -> [_tile, _trackerToken]
    _tracker,         \* SentryTracker list, index 1 = most recently used
    _updateData, _loadChildren, _loadElevation, _loadData,
    _mergeElevation, _mergeData,                       \* the six work queues
    dataLoader, dataMerger, elevationLoader, elevationMerger,
    childrenLoader,                                    \* per-tile slots
    _needsChildren, _needsUpdate,                      \* per-tile flags
    children,         \* per tile: its quad of children is attached
    before,           \* right after an update: the state it started from
    pingLog,          \* pings since the last update: what each one saw
    pingCount,        \* number of pings since the last update
    jobs,             \* per tile and slot: jobs dispatched so far
    disposed,         \* dispose() calls of the last update that returned true
    model,            \* per tile: the TerrainTileModel its dataLoader holds
    renderModel,      \* per tile: where its color/elevation/normal come from
    descriptorUpdates, \* per tile: updateTerrainTileDescriptors calls of merges
    canceled,         \* per tile: the Cancelable of its jobs reports canceled
    canceledLoads,    \* the tiles whose load job has observed cancellation
    quad,             \* what the create_children job that just ended returned
    pc, _mutex,       \* threads: position of each one, holder of the mutex
    terrainNode,      \* TerrainNode: status, engine, children, tilesRoot
    lastCall,         \* the call that has just returned: inputs and result
    application       \* Application: pending additions and removals, threads

vars == <<created, _tiles, _tracker, _updateData, _loadChildren, _loadElevation,
          _loadData, _mergeElevation, _mergeData, dataLoader, dataMerger,
          elevationLoader, elevationMerger, childrenLoader, _needsChildren,
          _needsUpdate, children, before, pingLog, pingCount, jobs, disposed,
          model, renderModel, descriptorUpdates, canceled, canceledLoads,
          quad, pc, _mutex, terrainNode, lastCall, application>>

queueVars == <<_updateData, _loadChildren, _loadElevation, _loadData,
               _mergeElevation, _mergeData>>

slotVars == <<dataLoader, dataMerger, elevationLoader, elevationMerger,
              childrenLoader>>

modelVars == <<model, renderModel, descriptorUpdates>>

threadVars == <<pc, _mutex>>

hostVars == <<terrainNode, lastCall, application>>

Range(s) == {s[i] : i \in 1..Len(s)}

\* ------------------------------------------------------- terrain tile models
\* What the merge reads of a TerrainTileModel: the number of color layers,
\* whether the first layer's image is valid, whether the heightfield is valid
\* and whether the normal map image is valid.
NoModel ==
    [colorLayers |-> -1, image |-> FALSE, heightfield |-> FALSE,
     normalMap |-> FALSE]

\* a default-constructed TerrainTileModel
EmptyModel ==
    [colorLayers |-> 0, image |-> FALSE, heightfield |-> FALSE,
     normalMap |-> FALSE]

\* a model with imagery, elevation and normals
FullModel ==
    [colorLayers |-> 1, image |-> TRUE, heightfield |-> TRUE,
     normalMap |-> TRUE]

\* the models createTileModel may return
Models == {EmptyModel, FullModel}

\* a texture of the render model is the one the tile was created with
\* (inherited from its parent, or the default) or one a merge has installed
Inherited == "inherited"
Loaded == "loaded"

\* what `before` holds unless an update has just returned
NoUpdate == [valid |-> FALSE]

\* what `quad` holds unless a create_children job has just ended
NoJob == [ended |-> FALSE]

\* any step but update ends the moment "an update has just returned"
afterOther == before' = NoUpdate /\ disposed' = <<>>

\* threads: the frame thread calls update, the record traversal's threads
\* call ping
Threads == {"frame", "cull1", "cull2"}
NoThread == "none"

\* a thread outside ping and update
Idle == [at |-> "idle"]

\* an Application before any add or remove: nothing pending, nothing attached
Additions == {"o1", "o2"}
NewApplication ==
    [_objectsToAdd |-> <<>>, _objectsToRemove |-> <<>>,
     _add_remove_mutex |-> NoThread,
     pc |-> [th \in {"frame", "user"} |-> Idle],
     future |-> [o \in Additions |-> Empty],
     node |-> [o \in Additions |-> TRUE],
     addChild |-> [o \in Additions |-> 0],
     children |-> {},
     in_progress |-> <<>>]

\* no call has returned yet
NoCall == [op |-> "none"]

\* a TerrainNode that setMap has just given its map: status OK, no engine,
\* no children
NewTerrainNode ==
    [status |-> "ok", engine |-> FALSE, children |-> 0, tilesRoot |-> {}]

\* a registry as constructed, and tiles nothing has been requested for
InitRegistry ==
    /\ _tiles = <<>>
    /\ _tracker = <<Sentry>>
    /\ _updateData = <<>>
    /\ _loadChildren = <<>>
    /\ _loadElevation = <<>>
    /\ _loadData = <<>>
    /\ _mergeElevation = <<>>
    /\ _mergeData = <<>>
    /\ dataLoader = [t \in Tiles |-> Empty]
    /\ dataMerger = [t \in Tiles |-> Empty]
    /\ elevationLoader = [t \in Tiles |-> Empty]
    /\ elevationMerger = [t \in Tiles |-> Empty]
    /\ childrenLoader = [t \in Tiles |-> Empty]
    /\ _needsChildren = [t \in Tiles |-> FALSE]
    /\ _needsUpdate = [t \in Tiles |-> FALSE]
    /\ children = [t \in Tiles |-> FALSE]
    /\ before = NoUpdate
    /\ pingLog = {}
    /\ pingCount = 0
    /\ jobs = [t \in Tiles |-> [s \in Slots |-> 0]]
    /\ disposed = <<>>
    /\ model = [t \in Tiles |-> NoModel]
    /\ renderModel = [t \in Tiles |-> [color |-> Inherited,
                                       elevation |-> Inherited,
                                       normal |-> Inherited]]
    /\ descriptorUpdates = [t \in Tiles |-> 0]
    /\ canceled = [t \in Tiles |-> FALSE]
    /\ canceledLoads = {}
    /\ quad = NoJob
    /\ pc = [th \in Threads |-> Idle]
    /\ _mutex = NoThread
    /\ terrainNode = NewTerrainNode
    /\ lastCall = NoCall
    /\ application = NewApplication

Init ==
    /\ created \in TileSets
    /\ InitRegistry

\* ---------------------------------------------------------------- tracker
\* SentryTracker::use: no token inserts a new most-recent entry, a token
\* moves its entry to most-recent
TrackerUse(tr, tile, token) ==
    IF token = NoTile
    THEN <<tile>> \o tr
    ELSE <<token>> \o SelectSeq(tr, LAMBDA e : e # token)

\* the entries behind the sentry, i.e. not used since the last flush
Untouched(tr) ==
    LET s == CHOOSE i \in 1..Len(tr) : tr[i] = Sentry
    IN SubSeq(tr, s + 1, Len(tr))

Reverse(s) == [i \in 1..Len(s) |-> s[Len(s) + 1 - i]]

\* the order in which flush visits the untouched entries: least recently
\* used first
FlushOrder(tr) == Reverse(Untouched(tr))

\* ping with the own-data gate of the children request left out
tileHasData_ungated(tile) == TRUE

\* ------------------------------------------------------------------- ping
tileHasData(tile) == dataMerger[tile] = Available

\* without LOAD_ELEVATION_SEPARATELY elevation is part of the data
tileHasElevation(tile) == tileHasData(tile)

parentHasElevation(parent) ==
    parent = NoTile \/ elevationMerger[parent] = Available

\* ping with the parent gate of the data request left out
parentHasData_ungated(parent) == TRUE

\* ping that asks for the data of a tile only below an available parent
parentHasData_belowParent(parent) ==
    parent # NoTile /\ dataMerger[parent] = Available

parentHasData(parent) ==
    parent = NoTile \/ dataMerger[parent] = Available

wantsLoadChildren(tile) ==
    tileHasData(tile) /\ tileHasElevation(tile) /\ _needsChildren[tile]

wantsLoadElevation(tile, parent) ==
    parentHasElevation(parent) /\ elevationLoader[tile] = Empty

wantsLoadData(tile, parent) ==
    parentHasData(parent) /\ dataLoader[tile] = Empty

wantsMergeElevation(tile) ==
    elevationLoader[tile] = Available /\ elevationMerger[tile] = Empty

\* ping that queues the merge without waiting for the load
wantsMergeData_noLoader(tile) == dataMerger[tile] = Empty

wantsMergeData(tile) ==
    dataLoader[tile] = Available /\ dataMerger[tile] = Empty

push_back(queue, cond, key) == IF cond THEN Append(queue, key) ELSE queue

\* ping that tells the tracker about new tiles only
pingTracker_newOnly(tile) ==
    IF tileKey(tile) \notin DOMAIN _tiles
    THEN TrackerUse(_tracker, tile, NoTile)
    ELSE _tracker

\* the tracker after ping's first step
pingTracker(tile) ==
    IF tileKey(tile) \notin DOMAIN _tiles
    THEN TrackerUse(_tracker, tile, NoTile)
    ELSE TrackerUse(_tracker, tile, _tiles[tileKey(tile)]._trackerToken)

\* the key->tile map after ping's first step
pingTiles(tile) ==
    IF tileKey(tile) \notin DOMAIN _tiles
    THEN (tileKey(tile) :> [_tile |-> tile, _trackerToken |-> tile]) @@ _tiles
    ELSE _tiles

\* the record traversal reaches the tile: a tile whose parent has dropped its
\* quad is released and no longer visited
traversed(tile) == ~canceled[tile]

\* the second part of ping ("next, see if the tile needs anything"): the
\* pushes onto the queues
pingRequests(tile) ==
    LET parent == tileParent[tile]
        key == tileKey(tile)
    IN
    /\ _loadChildren' = push_back(_loadChildren, wantsLoadChildren(tile), key)
    /\ _loadElevation' =
           push_back(_loadElevation, wantsLoadElevation(tile, parent), key)
    /\ Len(_loadElevation') <= MaxLoadElevation
    /\ _loadData' = push_back(_loadData, wantsLoadData(tile, parent), key)
    /\ _mergeElevation' =
           push_back(_mergeElevation, wantsMergeElevation(tile), key)
    /\ Len(_mergeElevation') <= MaxLoadElevation
    /\ _mergeData' = push_back(_mergeData, wantsMergeData(tile), key)
    /\ _updateData' = push_back(_updateData, _needsUpdate[tile], key)
    /\ pingLog' = pingLog \cup
           {[tile |-> tile,
             _needsChildren |-> _needsChildren[tile],
             childrenLoader |-> childrenLoader[tile],
             dataLoader |-> dataLoader[tile],
             dataMerger |-> dataMerger[tile],
             elevationLoader |-> elevationLoader[tile],
             elevationMerger |-> elevationMerger[tile],
             parentData |->
                 parent # NoTile /\ dataMerger[parent] = Available,
             parentElevation |->
                 parent # NoTile /\ elevationMerger[parent] = Available]}

\* TileNodeRegistry::ping(tile, parent, rv); the caller passes the tile's
\* own parent
ping(tile) ==
    /\ tile \in created
    /\ traversed(tile)
    /\ pingCount < MaxPings
    /\ _tiles' = pingTiles(tile)
    /\ _tracker' = pingTracker(tile)
    /\ pingRequests(tile)
    /\ pingCount' = pingCount + 1
    /\ UNCHANGED <<created, slotVars, _needsChildren, _needsUpdate, children,
                   jobs, modelVars, canceled, canceledLoads, threadVars, hostVars>>
    /\ quad' = NoJob
    /\ afterOther

\* ------------------------------------------------- jobs and the traversal
\* the load lambda of requestLoadData runs to its end and the job scheduler
\* resolves the future with the model createTileModel returned
dataLoadDone(tile, m) ==
    /\ dataLoader[tile] = Working
    /\ dataLoader' = [dataLoader EXCEPT ![tile] = Available]
    /\ model' = [model EXCEPT ![tile] = m]
    /\ UNCHANGED <<created, _tiles, _tracker, queueVars, dataMerger, elevationLoader,
                   elevationMerger, childrenLoader, _needsChildren,
                   _needsUpdate, children, pingLog, pingCount, jobs,
                   renderModel, descriptorUpdates, canceled, canceledLoads,
                   threadVars, hostVars>>
    /\ quad' = NoJob
    /\ afterOther

\* the load lambda of requestLoadData finds p.canceled() and returns { }
dataLoadCanceled(tile) ==
    /\ dataLoader[tile] = Working
    /\ canceled[tile]
    /\ dataLoader' = [dataLoader EXCEPT ![tile] = Available]
    /\ model' = [model EXCEPT ![tile] = EmptyModel]
    /\ canceledLoads' = canceledLoads \cup {tile}
    /\ UNCHANGED <<created, _tiles, _tracker, queueVars, dataMerger, elevationLoader,
                   elevationMerger, childrenLoader, _needsChildren,
                   _needsUpdate, children, pingLog, pingCount, jobs,
                   renderModel, descriptorUpdates, canceled, threadVars, hostVars>>
    /\ quad' = NoJob
    /\ afterOther

\* the merge lambda with `updated` starting out true
mergeModel_alwaysUpdated(m, rm) ==
    LET r1 == IF m.colorLayers > 0 /\ m.image
              THEN [rm EXCEPT !.color = Loaded] ELSE rm
        r2 == IF m.heightfield THEN [r1 EXCEPT !.elevation = Loaded] ELSE r1
        r3 == IF m.normalMap THEN [r2 EXCEPT !.normal = Loaded] ELSE r2
    IN [renderModel |-> r3, updated |-> TRUE]

\* the merge lambda with the heightfield block left out
mergeModel_colorOnly(m, rm) ==
    LET r1 == IF m.colorLayers > 0 /\ m.image
              THEN [rm EXCEPT !.color = Loaded] ELSE rm
        r3 == IF m.normalMap THEN [r1 EXCEPT !.normal = Loaded] ELSE r1
    IN [renderModel |-> r3,
        updated |-> m.colorLayers > 0 \/ m.normalMap]

\* the body of the merge lambda of requestMergeData once it has the tile:
\* the render model it leaves and its `updated` flag
mergeModel(m, rm) ==
    LET r1 == IF m.colorLayers > 0 /\ m.image
              THEN [rm EXCEPT !.color = Loaded] ELSE rm
        r2 == IF m.heightfield THEN [r1 EXCEPT !.elevation = Loaded] ELSE r1
        r3 == IF m.normalMap THEN [r2 EXCEPT !.normal = Loaded] ELSE r2
    IN [renderModel |-> r3,
        updated |-> m.colorLayers > 0 \/ m.heightfield \/ m.normalMap]

\* the merge operation scheduled by requestMergeData runs in the viewer's
\* update step and resolves its promise
merge(tile) ==
    LET key == tileKey(tile)
        found == IF key \in DOMAIN _tiles THEN _tiles[key]._tile ELSE NoTile
        merged == mergeModel(model[found], renderModel[found])
    IN
    /\ dataMerger[tile] = Working
    /\ dataMerger' = [dataMerger EXCEPT ![tile] = Available]
    /\ IF canceled[tile] \/ found = NoTile
       THEN UNCHANGED <<renderModel, descriptorUpdates>>
       ELSE /\ renderModel' = [renderModel EXCEPT ![found] = merged.renderModel]
            /\ descriptorUpdates' =
                   [descriptorUpdates EXCEPT
                       ![found] = IF merged.updated THEN @ + 1 ELSE @]
    /\ UNCHANGED <<created, _tiles, _tracker, queueVars, dataLoader, elevationLoader,
                   elevationMerger, childrenLoader, _needsChildren,
                   _needsUpdate, children, pingLog, pingCount, jobs, model,
                   canceled, canceledLoads, threadVars, hostVars>>
    /\ quad' = NoJob
    /\ afterOther

\* what the create_children lambda returns when there is nothing to attach
NoNode == [node |-> FALSE, children |-> <<>>]

\* create_children that hands back the quad as filled when it stops
RECURSIVE quadrantLoop_partial(_, _, _, _, _)
quadrantLoop_partial(quadrant, quadChildren, parentKey, canceledFrom, nullAt) ==
    IF quadrant >= 4 THEN [node |-> TRUE, children |-> quadChildren]
    ELSE IF quadrant >= canceledFrom
    THEN [node |-> TRUE, children |-> quadChildren]
    ELSE IF quadrant = nullAt THEN [node |-> TRUE, children |-> quadChildren]
    ELSE quadrantLoop_partial(quadrant + 1,
                      Append(quadChildren, createChildKey(parentKey, quadrant)),
                      parentKey, canceledFrom, nullAt)

\* create_children that gives every child the key of its parent
RECURSIVE quadrantLoop_ownKey(_, _, _, _, _)
quadrantLoop_ownKey(quadrant, quadChildren, parentKey, canceledFrom, nullAt) ==
    IF quadrant >= 4 THEN [node |-> TRUE, children |-> quadChildren]
    ELSE IF quadrant >= canceledFrom THEN NoNode
    ELSE IF quadrant = nullAt THEN NoNode
    ELSE quadrantLoop_ownKey(quadrant + 1, Append(quadChildren, parentKey),
                             parentKey, canceledFrom, nullAt)

\* the quadrant loop of create_children: p.canceled() turns true at quadrant
\* canceledFrom (4: never), createTile returns null at quadrant nullAt
\* (4: never); `quadChildren` is quad->children filled so far
RECURSIVE quadrantLoop(_, _, _, _, _)
quadrantLoop(quadrant, quadChildren, parentKey, canceledFrom, nullAt) ==
    IF quadrant >= 4 THEN [node |-> TRUE, children |-> quadChildren]
    ELSE IF quadrant >= canceledFrom THEN NoNode
    ELSE IF quadrant = nullAt THEN NoNode
    ELSE quadrantLoop(quadrant + 1,
                      Append(quadChildren, createChildKey(parentKey, quadrant)),
                      parentKey, canceledFrom, nullAt)

\* the create_children lambda of requestLoadChildren: `alive` is whether
\* weak_parent still refers to the parent
create_children_result(alive, parentKey, canceledFrom, nullAt) ==
    IF alive
    THEN quadrantLoop(0, <<>>, parentKey, canceledFrom, nullAt)
    ELSE NoNode

\* the create_children job finishes; a quad is added to the parent.  The
\* parent is alive and createTile returns a tile for every quadrant.
create_children(parent, canceledFrom) ==
    LET result == create_children_result(TRUE, tileKey(parent), canceledFrom, 4)
    IN
    /\ childrenLoader[parent] = Working
    /\ canceledFrom < 4 => canceled[parent]
    /\ childrenLoader' = [childrenLoader EXCEPT ![parent] = Available]
    /\ children' = [children EXCEPT ![parent] = @ \/ result.node]
    /\ quad' = NoJob
    /\ UNCHANGED <<created, _tiles, _tracker, queueVars, dataLoader, dataMerger,
                   elevationLoader, elevationMerger, _needsChildren,
                   _needsUpdate, pingLog, pingCount, jobs, modelVars,
                   canceled, canceledLoads, threadVars, hostVars>>
    /\ afterOther

\* the traversal finds the tile's children in range and not loaded
setNeedsChildren(tile) ==
    /\ tile \in created
    /\ traversed(tile)
    /\ ~_needsChildren[tile]
    /\ childrenLoader[tile] = Empty
    /\ _needsChildren' = [_needsChildren EXCEPT ![tile] = TRUE]
    /\ UNCHANGED <<created, _tiles, _tracker, queueVars, slotVars, _needsUpdate,
                   children, pingLog, pingCount, jobs, modelVars, canceled,
                   canceledLoads, threadVars, hostVars>>
    /\ quad' = NoJob
    /\ afterOther

\* ----------------------------------------------------------------- update
\* The state update() works on, threaded through its loops:
\*   tiles, tracker, children, needsChildren, childrenLoader, dataLoader,
\*   dataMerger, jobs, disposed
bump(j, tile, slot) == [j EXCEPT ![tile][slot] = @ + 1]

erase(tiles, key) == [k \in DOMAIN tiles \ {key} |-> tiles[k]]

\* requestLoadChildren with the slot test inverted
requestLoadChildren_inverted(parent, st) ==
    IF parent = NoTile THEN st
    ELSE IF st.childrenLoader[parent] = Empty THEN st
    ELSE [st EXCEPT !.childrenLoader[parent] = Working,
                    !.jobs = bump(@, parent, "childrenLoader")]

\* TileNodeRegistry::requestLoadChildren
requestLoadChildren(parent, st) ==
    IF parent = NoTile THEN st
    ELSE IF st.childrenLoader[parent] # Empty THEN st
    ELSE [st EXCEPT !.childrenLoader[parent] = Working,
                    !.jobs = bump(@, parent, "childrenLoader")]

\* requestLoadData without the test of the slot
requestLoadData_unguarded(tile, st) ==
    IF tile = NoTile THEN st
    ELSE [st EXCEPT !.dataLoader[tile] = Working,
                    !.jobs = bump(@, tile, "dataLoader")]

\* requestLoadData that takes a null tile for the root
requestLoadData_nullAsRoot(tile, st) ==
    LET t == IF tile = NoTile THEN "R" ELSE tile
    IN IF st.dataLoader[t] = Working \/ st.dataLoader[t] = Available
       THEN st
       ELSE [st EXCEPT !.dataLoader[t] = Working,
                       !.jobs = bump(@, t, "dataLoader")]

\* TileNodeRegistry::requestLoadData
requestLoadData(tile, st) ==
    IF tile = NoTile THEN st
    ELSE IF st.dataLoader[tile] = Working \/ st.dataLoader[tile] = Available
    THEN st
    ELSE [st EXCEPT !.dataLoader[tile] = Working,
                    !.jobs = bump(@, tile, "dataLoader")]

\* requestMergeData that runs the merge on the spot
requestMergeData_synchronous(tile, st) ==
    IF tile = NoTile THEN st
    ELSE IF st.dataMerger[tile] = Working \/ st.dataMerger[tile] = Available
    THEN st
    ELSE [st EXCEPT !.dataMerger[tile] = Available,
                    !.jobs = bump(@, tile, "dataMerger")]

\* requestMergeData without the test of the slot
requestMergeData_unguarded(tile, st) ==
    IF tile = NoTile THEN st
    ELSE [st EXCEPT !.dataMerger[tile] = Working,
                    !.jobs = bump(@, tile, "dataMerger")]

\* TileNodeRegistry::requestMergeData
requestMergeData(tile, st) ==
    IF tile = NoTile THEN st
    ELSE IF st.dataMerger[tile] = Working \/ st.dataMerger[tile] = Available
    THEN st
    ELSE [st EXCEPT !.dataMerger[tile] = Working,
                    !.jobs = bump(@, tile, "dataMerger")]

\* for (auto& key : _loadChildren)
RECURSIVE loadChildrenLoop(_, _)
loadChildrenLoop(queue, st) ==
    IF queue = <<>> THEN st
    ELSE LET key == Head(queue)
         IN loadChildrenLoop(Tail(queue),
                IF key \in DOMAIN st.tiles
                THEN LET tile == st.tiles[key]._tile
                         s1 == requestLoadChildren(tile, st)
                     IN [s1 EXCEPT !.needsChildren[tile] = FALSE]
                ELSE st)

\* the update loop that invokes the hook once for every tile in the queue
RECURSIVE updateDataLoop_oncePerTile(_, _)
updateDataLoop_oncePerTile(queue, st) ==
    IF queue = <<>> THEN st
    ELSE LET key == Head(queue)
         IN updateDataLoop_oncePerTile(
                SelectSeq(Tail(queue), LAMBDA k : k # key),
                IF key \in DOMAIN st.tiles
                THEN [st EXCEPT !.updates[st.tiles[key]._tile] = @ + 1]
                ELSE st)

\* for (auto& key : _updateData): tile->update(fs, io) is invoked for the
\* tile registered under the key; `updates` counts the invocations
RECURSIVE updateDataLoop(_, _)
updateDataLoop(queue, st) ==
    IF queue = <<>> THEN st
    ELSE LET key == Head(queue)
         IN updateDataLoop(Tail(queue),
                IF key \in DOMAIN st.tiles
                THEN [st EXCEPT !.updates[st.tiles[key]._tile] = @ + 1]
                ELSE st)

\* for (auto& key : _loadData)
RECURSIVE loadDataLoop(_, _)
loadDataLoop(queue, st) ==
    IF queue = <<>> THEN st
    ELSE LET key == Head(queue)
         IN loadDataLoop(Tail(queue),
                IF key \in DOMAIN st.tiles
                THEN requestLoadData(st.tiles[key]._tile, st)
                ELSE st)

\* for (auto& key : _mergeData)
RECURSIVE mergeDataLoop(_, _)
mergeDataLoop(queue, st) ==
    IF queue = <<>> THEN st
    ELSE LET key == Head(queue)
         IN mergeDataLoop(Tail(queue),
                IF key \in DOMAIN st.tiles
                THEN requestMergeData(st.tiles[key]._tile, st)
                ELSE st)

\* the tiles below `ancestor` in the quadtree
RECURSIVE isBelow(_, _)
isBelow(t, ancestor) ==
    /\ tileParent[t] # NoTile
    /\ tileParent[t] = ancestor \/ isBelow(tileParent[t], ancestor)

\* TerrainTileNode::unloadChildren: the parent drops its child link, which
\* releases the subtree and cancels the jobs in flight for it
unloadChildren(parent, st) ==
    [st EXCEPT !.children[parent] = FALSE,
               !.canceled = [t \in Tiles |-> @[t] \/ isBelow(t, parent)]]

\* _queue.clear() after the loop over the queue
clear(st, queue) == [st EXCEPT !.drained = Append(@, queue)]

\* dispose that reports the tile disposed but leaves it in the map
dispose_keepsEntry(tile, st) ==
    IF ~doNotExpire[tile]
    THEN LET key == tileKey(tile)
             parentKey == createParentKey(key)
             parent == IF parentKey \in DOMAIN st.tiles
                       THEN st.tiles[parentKey]._tile
                       ELSE NoTile
             s1 == IF parent # NoTile THEN unloadChildren(parent, st) ELSE st
         IN [st |-> [s1 EXCEPT
                        !.disposed = Append(@, [tile |-> tile,
                                                parent |-> parent])],
             result |-> TRUE]
    ELSE [st |-> st, result |-> FALSE]

\* dispose without the doNotExpire test
dispose_expiresAll(tile, st) ==
    LET key == tileKey(tile)
        parentKey == createParentKey(key)
        parent == IF parentKey \in DOMAIN st.tiles
                  THEN st.tiles[parentKey]._tile
                  ELSE NoTile
        s1 == IF parent # NoTile THEN unloadChildren(parent, st) ELSE st
    IN [st |-> [s1 EXCEPT
                   !.tiles = erase(@, key),
                   !.disposed = Append(@, [tile |-> tile, parent |-> parent])],
        result |-> TRUE]

\* dispose that does not tell the parent
dispose_noUnload(tile, st) ==
    IF ~doNotExpire[tile]
    THEN LET key == tileKey(tile)
             parentKey == createParentKey(key)
             parent == IF parentKey \in DOMAIN st.tiles
                       THEN st.tiles[parentKey]._tile
                       ELSE NoTile
         IN [st |-> [st EXCEPT
                        !.tiles = erase(@, key),
                        !.disposed = Append(@, [tile |-> tile,
                                                parent |-> parent])],
             result |-> TRUE]
    ELSE [st |-> st, result |-> FALSE]

\* dispose that also drops the map entries of the tile's children
dispose_cascade(tile, st) ==
    IF ~doNotExpire[tile]
    THEN LET key == tileKey(tile)
             parentKey == createParentKey(key)
             parent == IF parentKey \in DOMAIN st.tiles
                       THEN st.tiles[parentKey]._tile
                       ELSE NoTile
             s1 == IF parent # NoTile THEN unloadChildren(parent, st) ELSE st
         IN [st |-> [s1 EXCEPT
                        !.tiles = [k \in {j \in DOMAIN @ :
                                             j # key /\ createParentKey(j) # key}
                                      |-> @[k]],
                        !.disposed = Append(@, [tile |-> tile,
                                                parent |-> parent])],
             result |-> TRUE]
    ELSE [st |-> st, result |-> FALSE]

\* the dispose lambda of update(): the state after it and what it returned
dispose(tile, st) ==
    IF ~doNotExpire[tile]
    THEN LET key == tileKey(tile)
             parentKey == createParentKey(key)
             parent == IF parentKey \in DOMAIN st.tiles
                       THEN st.tiles[parentKey]._tile
                       ELSE NoTile
             s1 == IF parent # NoTile THEN unloadChildren(parent, st) ELSE st
         IN [st |-> [s1 EXCEPT
                        !.tiles = erase(@, key),
                        !.disposed = Append(@, [tile |-> tile,
                                                parent |-> parent])],
             result |-> TRUE]
    ELSE [st |-> st, result |-> FALSE]

\* the loop of SentryTracker::flush; maxCount is ~0 and never reached
RECURSIVE flushLoop(_, _)
flushLoop(order, st) ==
    IF order = <<>> THEN st
    ELSE LET d == dispose(Head(order), st)
         IN flushLoop(Tail(order),
                IF d.result
                THEN [d.st EXCEPT !.tracker =
                          SelectSeq(@, LAMBDA e : e # Head(order))]
                ELSE d.st)

\* SentryTracker::flush: dispose the untouched entries, then reset the sentry
flush(st) ==
    LET s1 == flushLoop(FlushOrder(st.tracker), st)
    IN [s1 EXCEPT !.tracker =
                      <<Sentry>> \o SelectSeq(@, LAMBDA e : e # Sentry)]

\* the body of TileNodeRegistry::update(fs, io, terrain)
updateBody ==
    LET st0 == [tiles |-> _tiles, tracker |-> _tracker, children |-> children,
                needsChildren |-> _needsChildren,
                childrenLoader |-> childrenLoader, dataLoader |-> dataLoader,
                dataMerger |-> dataMerger, jobs |-> jobs, disposed |-> <<>>,
                canceled |-> canceled, drained |-> <<>>,
                updates |-> [t \in Tiles |-> 0]]
        st1 == clear(loadChildrenLoop(_loadChildren,
                                      clear(updateDataLoop(_updateData, st0),
                                            "_updateData")),
                     "_loadChildren")
        st2 == clear(loadDataLoop(_loadData, st1), "_loadData")
        st3 == clear(mergeDataLoop(_mergeData, st2), "_mergeData")
        st4 == clear(flush(st3), "flush")
        cleared(queue, name) ==
            IF name \in Range(st4.drained) THEN <<>> ELSE queue
    IN
    /\ _updateData' = cleared(_updateData, "_updateData")
    /\ _loadChildren' = cleared(_loadChildren, "_loadChildren")
    /\ _loadElevation' = cleared(_loadElevation, "_loadElevation")
    /\ _loadData' = cleared(_loadData, "_loadData")
    /\ _mergeElevation' = cleared(_mergeElevation, "_mergeElevation")
    /\ _mergeData' = cleared(_mergeData, "_mergeData")
    /\ _tiles' = st4.tiles
    /\ _tracker' = st4.tracker
    /\ children' = st4.children
    /\ _needsChildren' = st4.needsChildren
    /\ childrenLoader' = st4.childrenLoader
    /\ dataLoader' = st4.dataLoader
    /\ dataMerger' = st4.dataMerger
    /\ jobs' = st4.jobs
    /\ disposed' = st4.disposed
    /\ canceled' = st4.canceled
    /\ before' = [valid |-> TRUE, _tiles |-> _tiles, _tracker |-> _tracker,
                  _loadChildren |-> _loadChildren, _loadData |-> _loadData,
                  _mergeData |-> _mergeData, pingLog |-> pingLog,
                  dataLoader |-> dataLoader, dataMerger |-> dataMerger,
                  childrenLoader |-> childrenLoader,
                  _needsChildren |-> _needsChildren, children |-> children,
                  jobs |-> jobs, drained |-> st4.drained,
                  _updateData |-> _updateData, updates |-> st4.updates]
    /\ pingLog' = {}
    /\ pingCount' = 0
    /\ quad' = NoJob
    /\ UNCHANGED <<created, elevationLoader, elevationMerger, _needsUpdate,
                   modelVars, canceledLoads>>

\* TileNodeRegistry::update(fs, io, terrain), run with no other thread in
\* the registry
update == updateBody /\ UNCHANGED <<threadVars, hostVars>>

\* TileNodeRegistry::requestLoadElevation
requestLoadElevation(tile, st) ==
    IF tile = NoTile THEN st
    ELSE IF st.elevationLoader[tile] = Working
            \/ st.elevationLoader[tile] = Available
    THEN st
    ELSE [st EXCEPT !.elevationLoader[tile] = Working,
                    !.jobs = bump(@, tile, "elevationLoader")]

\* TileNodeRegistry::requestMergeElevation
requestMergeElevation(tile, st) ==
    IF tile = NoTile THEN st
    ELSE IF st.elevationMerger[tile] = Working
            \/ st.elevationMerger[tile] = Available
    THEN st
    ELSE [st EXCEPT !.elevationMerger[tile] = Working,
                    !.jobs = bump(@, tile, "elevationMerger")]

\* requestLoadElevation is called for a tile; the update() of this build
\* never does it
loadElevation(tile) ==
    LET st == requestLoadElevation(tile, [elevationLoader |-> elevationLoader,
                                          jobs |-> jobs])
    IN
    /\ tile \in created
    /\ traversed(tile)
    /\ elevationLoader[tile] = Empty
    /\ elevationLoader' = st.elevationLoader
    /\ jobs' = st.jobs
    /\ UNCHANGED <<created, _tiles, _tracker, queueVars, dataLoader, dataMerger,
                   elevationMerger, childrenLoader, _needsChildren,
                   _needsUpdate, children, pingLog, pingCount, modelVars,
                   canceled, canceledLoads, threadVars, hostVars>>
    /\ quad' = NoJob
    /\ afterOther

\* the load lambda of requestLoadElevation runs to its end
elevationLoadDone(tile) ==
    /\ elevationLoader[tile] = Working
    /\ elevationLoader' = [elevationLoader EXCEPT ![tile] = Available]
    /\ UNCHANGED <<created, _tiles, _tracker, queueVars, dataLoader, dataMerger,
                   elevationMerger, childrenLoader, _needsChildren,
                   _needsUpdate, children, pingLog, pingCount, jobs, modelVars,
                   canceled, canceledLoads, threadVars, hostVars>>
    /\ quad' = NoJob
    /\ afterOther

\* the registry while every fetch succeeds
Next ==
    \/ \E tile \in Tiles : ping(tile)
    \/ update
    \/ \E tile \in Tiles : dataLoadDone(tile, FullModel)
    \/ \E tile \in Tiles : dataLoadCanceled(tile)
    \/ \E tile \in Tiles : merge(tile)
    \/ \E tile \in Tiles : \E canceledFrom \in 0..4 :
           create_children(tile, canceledFrom)
    \/ \E tile \in Tiles : setNeedsChildren(tile)

Spec == Init /\ [][Next]_vars

\* the registry with fetches that fail: the load job returns a default model
FetchTileSets == {{"R", "A"}}

InitFetch ==
    /\ created \in FetchTileSets
    /\ InitRegistry

NextFetch ==
    \/ Next
    \/ \E tile \in Tiles : dataLoadDone(tile, EmptyModel)

SpecFetch == InitFetch /\ [][NextFetch]_vars

\* the registry with elevation loads requested from outside update()
ElevationTileSets == {{"R", "A"}}

InitElevation ==
    /\ created \in ElevationTileSets
    /\ InitRegistry

NextElevation ==
    \/ \E tile \in Tiles : ping(tile)
    \/ update
    \/ \E tile \in Tiles : \E m \in Models : dataLoadDone(tile, m)
    \/ \E tile \in Tiles : merge(tile)
    \/ \E tile \in Tiles : loadElevation(tile)
    \/ \E tile \in Tiles : elevationLoadDone(tile)

SpecElevation == InitElevation /\ [][NextElevation]_vars

\* the create_children job on its own: every way it can end.  The job runs
\* on a loader thread and touches nothing of the registry.
runCreateChildren(parent, alive, canceledFrom, nullAt) ==
    /\ parent \in created
    /\ quad' = [ended |-> TRUE, parent |-> parent, alive |-> alive,
                canceledFrom |-> canceledFrom, nullAt |-> nullAt,
                result |-> create_children_result(alive, tileKey(parent),
                                                  canceledFrom, nullAt)]
    /\ UNCHANGED <<created, _tiles, _tracker, queueVars, slotVars,
                   _needsChildren, _needsUpdate, children, before, pingLog,
                   pingCount, jobs, disposed, modelVars, canceled,
                   canceledLoads, threadVars, hostVars>>

NextCreateChildren ==
    \E parent \in Tiles : \E alive \in BOOLEAN :
        \E canceledFrom \in 0..4 : \E nullAt \in 0..4 :
            runCreateChildren(parent, alive, canceledFrom, nullAt)

SpecCreateChildren == Init /\ [][NextCreateChildren]_vars

\* ---------------------------------------------------------------- threads
\* ping and update as the threads run them, statement by statement.  update
\* holds _mutex from its first line to its return; ping takes no lock.
CullThreads == Threads \ {"frame"}

\* ping, line 58: i = _tiles.find(tile->key)
pingFind(th, tile) ==
    /\ th \in CullThreads
    /\ pc[th] = Idle
    /\ tile \in created
    /\ traversed(tile)
    /\ pingCount < MaxPings
    /\ pc' = [pc EXCEPT ![th] = [at |-> "ping_60", tile |-> tile,
                                 found |-> tileKey(tile) \in DOMAIN _tiles]]
    /\ pingCount' = pingCount + 1
    /\ UNCHANGED <<created, _tiles, _tracker, queueVars, slotVars,
                   _needsChildren, _needsUpdate, children, pingLog, jobs,
                   modelVars, canceled, canceledLoads, _mutex, hostVars>>
    /\ quad' = NoJob
    /\ afterOther

\* ping, lines 60-70, with the iterator line 58 returned.  An iterator to an
\* entry that update has erased in the meantime dangles: the use of its token
\* either finds nothing to move or puts the tile back in the tracker.
pingUse(th, revived) ==
    LET tile == pc[th].tile
        key == tileKey(tile)
    IN
    /\ th \in CullThreads
    /\ pc[th].at = "ping_60"
    /\ IF ~pc[th].found
       THEN /\ _tiles' = (key :> [_tile |-> tile, _trackerToken |-> tile])
                              @@ _tiles
            /\ _tracker' = TrackerUse(_tracker, tile, NoTile)
            /\ ~revived
       ELSE IF key \in DOMAIN _tiles
       THEN /\ _tracker' = TrackerUse(_tracker, tile, _tiles[key]._trackerToken)
            /\ ~revived
            /\ UNCHANGED _tiles
       ELSE /\ _tracker' = IF revived THEN TrackerUse(_tracker, tile, NoTile)
                                      ELSE _tracker
            /\ UNCHANGED _tiles
    /\ pc' = [pc EXCEPT ![th] = [at |-> "ping_72", tile |-> tile]]
    /\ UNCHANGED <<created, queueVars, slotVars, _needsChildren, _needsUpdate,
                   children, pingLog, pingCount, jobs, modelVars, canceled,
                   canceledLoads, _mutex, hostVars>>
    /\ quad' = NoJob
    /\ afterOther

\* ping, lines 72-130
pingPush(th) ==
    /\ th \in CullThreads
    /\ pc[th].at = "ping_72"
    /\ pingRequests(pc[th].tile)
    /\ pc' = [pc EXCEPT ![th] = Idle]
    /\ UNCHANGED <<created, _tiles, _tracker, slotVars, _needsChildren,
                   _needsUpdate, children, pingCount, jobs, modelVars,
                   canceled, canceledLoads, _mutex, hostVars>>
    /\ quad' = NoJob
    /\ afterOther

\* update, line 139: std::scoped_lock lock(_mutex)
updateLock(th) ==
    /\ th = "frame"
    /\ pc[th] = Idle
    /\ _mutex = NoThread
    /\ _mutex' = th
    /\ pc' = [pc EXCEPT ![th] = [at |-> "update_149"]]
    /\ UNCHANGED <<created, _tiles, _tracker, queueVars, slotVars,
                   _needsChildren, _needsUpdate, children, pingLog, pingCount,
                   jobs, modelVars, canceled, canceledLoads, hostVars>>
    /\ quad' = NoJob
    /\ afterOther

\* update, lines 149-246, under the lock
updateSweep(th) ==
    /\ pc[th].at = "update_149"
    /\ _mutex = th
    /\ updateBody
    /\ pc' = [pc EXCEPT ![th] = [at |-> "update_247"]]
    /\ UNCHANGED <<_mutex, hostVars>>

\* update, line 247: the scoped_lock goes out of scope
updateUnlock(th) ==
    /\ pc[th].at = "update_247"
    /\ _mutex = th
    /\ _mutex' = NoThread
    /\ pc' = [pc EXCEPT ![th] = Idle]
    /\ UNCHANGED <<created, _tiles, _tracker, queueVars, slotVars,
                   _needsChildren, _needsUpdate, children, before, pingLog,
                   pingCount, jobs, disposed, modelVars, canceled,
                   canceledLoads, quad, hostVars>>

NextThreads ==
    \/ \E th \in Threads : \E tile \in Tiles : pingFind(th, tile)
    \/ \E th \in Threads : \E revived \in BOOLEAN : pingUse(th, revived)
    \/ \E th \in Threads : pingPush(th)
    \/ \E th \in Threads : updateLock(th)
    \/ \E th \in Threads : updateSweep(th)
    \/ \E th \in Threads : updateUnlock(th)

\* the tiles the threads ping: the root and one child
ThreadTileSets == {{"R", "A"}}

InitThreads ==
    /\ created \in ThreadTileSets
    /\ InitRegistry

SpecThreads == InitThreads /\ [][NextThreads]_vars

\* ------------------------------------------------------------- frame loop
\* Application::run, viewer->update(): the frame thread, back from
\* mapNode->update, takes a merge operation off the viewer's update
\* operations
mergeStart(th, tile) ==
    /\ th = "frame"
    /\ pc[th] = Idle
    /\ dataMerger[tile] = Working
    /\ pc' = [pc EXCEPT ![th] = [at |-> "merge_464", tile |-> tile]]
    /\ UNCHANGED <<created, _tiles, _tracker, queueVars, slotVars,
                   _needsChildren, _needsUpdate, children, pingLog, pingCount,
                   jobs, modelVars, canceled, canceledLoads, _mutex, hostVars>>
    /\ quad' = NoJob
    /\ afterOther

\* the merge lambda, lines 464-524: getTile takes the registry mutex, which
\* is not recursive, and releases it on return; the rest runs unlocked
mergeGetTile(th) ==
    /\ pc[th].at = "merge_464"
    /\ _mutex = NoThread
    /\ merge(pc[th].tile)

\* the merge operation has returned and its promise is resolved
mergeEnd(th) ==
    /\ pc[th].at = "merge_464"
    /\ dataMerger[pc[th].tile] = Available
    /\ pc' = [pc EXCEPT ![th] = Idle]
    /\ UNCHANGED <<created, _tiles, _tracker, queueVars, slotVars,
                   _needsChildren, _needsUpdate, children, before, pingLog,
                   pingCount, jobs, disposed, modelVars, canceled,
                   canceledLoads, quad, _mutex, hostVars>>

\* the frame thread runs update and then the merges; the record traversal
\* pings and the load jobs finish at any time
NextFrame ==
    \/ \E tile \in Tiles : ping(tile)
    \/ \E tile \in Tiles : dataLoadDone(tile, FullModel)
    \/ updateLock("frame")
    \/ updateSweep("frame")
    \/ updateUnlock("frame")
    \/ \E tile \in Tiles : mergeStart("frame", tile)
    \/ mergeGetTile("frame")
    \/ mergeEnd("frame")

SpecFrame == InitFetch /\ [][NextFrame]_vars

\* ------------------------------------------------------------ update hook
\* the tile asks for its per-frame update, or stops asking
setNeedsUpdate(tile, needsUpdate) ==
    /\ tile \in created
    /\ _needsUpdate[tile] # needsUpdate
    /\ _needsUpdate' = [_needsUpdate EXCEPT ![tile] = needsUpdate]
    /\ UNCHANGED <<created, _tiles, _tracker, queueVars, slotVars,
                   _needsChildren, children, pingLog, pingCount, jobs,
                   modelVars, canceled, canceledLoads, threadVars, hostVars>>
    /\ quad' = NoJob
    /\ afterOther

NextHook ==
    \/ \E tile \in Tiles : ping(tile)
    \/ update
    \/ \E tile \in Tiles : \E needsUpdate \in BOOLEAN :
           setNeedsUpdate(tile, needsUpdate)

SpecHook == InitFetch /\ [][NextHook]_vars

\* ------------------------------------------------------------- releaseAll
\* releaseAll that leaves the work queues as they are
releaseAll_keepsQueues ==
    /\ _tiles' = <<>>
    /\ _tracker' = <<Sentry>>
    /\ lastCall' = [op |-> "releaseAll", released |-> DOMAIN _tiles]
    /\ UNCHANGED <<created, queueVars, slotVars, _needsChildren, _needsUpdate,
                   children, pingLog, pingCount, jobs, modelVars, canceled,
                   canceledLoads, terrainNode, threadVars, application>>
    /\ quad' = NoJob
    /\ afterOther

\* releaseAll that leaves the tracker as it is
releaseAll_tilesOnly ==
    /\ _tiles' = <<>>
    /\ _loadChildren' = <<>>
    /\ _loadElevation' = <<>>
    /\ _mergeElevation' = <<>>
    /\ _loadData' = <<>>
    /\ _mergeData' = <<>>
    /\ _updateData' = <<>>
    /\ lastCall' = [op |-> "releaseAll", released |-> DOMAIN _tiles]
    /\ UNCHANGED <<created, _tracker, slotVars, _needsChildren, _needsUpdate,
                   children, pingLog, pingCount, jobs, modelVars, canceled,
                   canceledLoads, terrainNode, threadVars, application>>
    /\ quad' = NoJob
    /\ afterOther

\* TileNodeRegistry::releaseAll(); SentryTracker::reset leaves the sentry alone
releaseAll ==
    /\ _tiles' = <<>>
    /\ _tracker' = <<Sentry>>
    /\ _loadChildren' = <<>>
    /\ _loadElevation' = <<>>
    /\ _mergeElevation' = <<>>
    /\ _loadData' = <<>>
    /\ _mergeData' = <<>>
    /\ _updateData' = <<>>
    /\ lastCall' = [op |-> "releaseAll", released |-> DOMAIN _tiles]
    /\ UNCHANGED <<created, slotVars, _needsChildren, _needsUpdate, children,
                   pingLog, pingCount, jobs, modelVars, canceled,
                   canceledLoads, terrainNode, threadVars, application>>
    /\ quad' = NoJob
    /\ afterOther

\* the operations that touch the key->tile map and the tracker
NextRelease ==
    \/ \E tile \in Tiles : ping(tile)
    \/ update
    \/ releaseAll

SpecRelease == Init /\ [][NextRelease]_vars

\* ------------------------------------------------------------- createTile
\* TileNodeRegistry::getTile(key)
getTile(key) == IF key \in DOMAIN _tiles THEN _tiles[key]._tile ELSE NoTile

\* createTile that enters the tile it returns into the key->tile map
createTile_registers(tile) ==
    /\ tile \notin created
    /\ tileParent[tile] # NoTile => tileParent[tile] \in created
    /\ created' = created \cup {tile}
    /\ _tiles' = pingTiles(tile)
    /\ _tracker' = pingTracker(tile)
    /\ UNCHANGED <<queueVars, slotVars, _needsChildren, _needsUpdate,
                   children, pingLog, pingCount, jobs, modelVars, canceled,
                   canceledLoads, hostVars, threadVars>>
    /\ quad' = NoJob
    /\ afterOther

\* TileNodeRegistry::createTile(key, parent, terrain): the tile object is
\* made from its key and its parent, which exists, and handed back
createTile(tile) ==
    /\ tile \notin created
    /\ tileParent[tile] # NoTile => tileParent[tile] \in created
    /\ created' = created \cup {tile}
    /\ UNCHANGED <<_tiles, _tracker, queueVars, slotVars, _needsChildren,
                   _needsUpdate, children, pingLog, pingCount, jobs,
                   modelVars, canceled, canceledLoads, hostVars, threadVars>>
    /\ quad' = NoJob
    /\ afterOther

\* the tiles createTile is called for: the root and two of its children
CreateTiles == {"R", "A", "B"}

NextCreateTile ==
    \/ \E tile \in CreateTiles : createTile(tile)
    \/ \E tile \in Tiles : ping(tile)
    \/ update
    \/ releaseAll

\* a registry as constructed, before createTile has been called
InitCreateTile ==
    /\ created = {}
    /\ InitRegistry

SpecCreateTile == InitCreateTile /\ [][NextCreateTile]_vars

\* ------------------------------------------------ requests with no tile
Requests == {"requestLoadChildren", "requestLoadData", "requestMergeData",
             "requestLoadElevation", "requestMergeElevation"}

\* one of the request functions is called with a null tile
nullRequest(request) ==
    LET st == [tiles |-> _tiles, tracker |-> _tracker, children |-> children,
               needsChildren |-> _needsChildren,
               childrenLoader |-> childrenLoader, dataLoader |-> dataLoader,
               dataMerger |-> dataMerger, elevationLoader |-> elevationLoader,
               elevationMerger |-> elevationMerger, jobs |-> jobs,
               canceled |-> canceled]
        r == CASE request = "requestLoadChildren" ->
                      requestLoadChildren(NoTile, st)
               [] request = "requestLoadData" -> requestLoadData(NoTile, st)
               [] request = "requestMergeData" -> requestMergeData(NoTile, st)
               [] request = "requestLoadElevation" ->
                      requestLoadElevation(NoTile, st)
               [] request = "requestMergeElevation" ->
                      requestMergeElevation(NoTile, st)
    IN
    /\ _tiles' = r.tiles
    /\ _tracker' = r.tracker
    /\ children' = r.children
    /\ _needsChildren' = r.needsChildren
    /\ childrenLoader' = r.childrenLoader
    /\ dataLoader' = r.dataLoader
    /\ dataMerger' = r.dataMerger
    /\ elevationLoader' = r.elevationLoader
    /\ elevationMerger' = r.elevationMerger
    /\ jobs' = r.jobs
    /\ canceled' = r.canceled
    /\ lastCall' = [op |-> request, tile |-> NoTile,
                    dispatched |-> r.jobs # jobs, changed |-> r # st]
    /\ UNCHANGED <<created, queueVars, _needsUpdate, pingLog, pingCount,
                   modelVars, canceledLoads, terrainNode, threadVars, application>>
    /\ quad' = NoJob
    /\ afterOther

NextRequests ==
    \/ NextFetch
    \/ \E request \in Requests : nullRequest(request)

SpecRequests == InitFetch /\ [][NextRequests]_vars

\* ---------------------------------------------------------- key derivation
\* 2^n
RECURSIVE pow2(_)
pow2(n) == IF n = 0 THEN 1 ELSE 2 * pow2(n - 1)

\* the keys of the quadtree below the root key, down to MaxLod
KeysToMaxLod ==
    {k \in (0..MaxLod) \X (0..(pow2(MaxLod) - 1)) \X (0..(pow2(MaxLod) - 1)) :
        k[2] < pow2(k[1]) /\ k[3] < pow2(k[1])}

\* the create_children job of a parent with key k derives the key of the
\* child in a quadrant, and the child's eviction looks up its parent's key;
\* one derivation in a behaviour
deriveKeys(k, quadrant) ==
    LET quadChildren == create_children_result(TRUE, k, 4, 4).children
        childKey == quadChildren[quadrant + 1]
    IN
    /\ lastCall = NoCall
    /\ lastCall' = [op |-> "create_children", key |-> k,
                    quadrant |-> quadrant, childKey |-> childKey,
                    parent_key |-> createParentKey(childKey)]
    /\ UNCHANGED <<created, _tiles, _tracker, queueVars, slotVars,
                   _needsChildren, _needsUpdate, children, before, pingLog,
                   pingCount, jobs, disposed, modelVars, canceled,
                   canceledLoads, quad, terrainNode, threadVars, application>>

NextKeys == \E k \in KeysToMaxLod : \E quadrant \in 0..3 : deriveKeys(k, quadrant)

\* no tile object is needed to derive keys
InitKeys ==
    /\ created = {}
    /\ InitRegistry

SpecKeys == InitKeys /\ [][NextKeys]_vars

\* ----------------------------------------------------------- load priority
\* the values lastTraversalRange takes: the ranges with a whole square root
Ranges == {i * i : i \in 0..MaxRoot}

\* sqrt, on those ranges
sqrt(range) == CHOOSE s \in 0..range : s * s = range

\* a tile as a priority function sees it through its weak pointer
PriorityTiles ==
    [alive : BOOLEAN, lastTraversalRange : Ranges, levelOfDetail : 0..MaxLod]

\* a priority that grows with the level of detail alone
priority_func_levelOnly(tile) ==
    IF tile.alive THEN -(tile.levelOfDetail) ELSE 0

\* priority_func of requestLoadChildren and requestLoadData
priority_func(tile) ==
    IF tile.alive
    THEN -(sqrt(tile.lastTraversalRange) * tile.levelOfDetail)
    ELSE 0

\* the scheduler asks for the priorities of the jobs of two tiles; one
\* comparison in a behaviour
priorities(a, b) ==
    /\ lastCall = NoCall
    /\ lastCall' = [op |-> "priority_func", a |-> a, b |-> b,
                    priority_a |-> priority_func(a),
                    priority_b |-> priority_func(b)]
    /\ UNCHANGED <<created, _tiles, _tracker, queueVars, slotVars,
                   _needsChildren, _needsUpdate, children, before, pingLog,
                   pingCount, jobs, disposed, modelVars, canceled,
                   canceledLoads, quad, terrainNode, threadVars, application>>

NextPriority == \E a \in PriorityTiles : \E b \in PriorityTiles : priorities(a, b)

SpecPriority == InitKeys /\ [][NextPriority]_vars

\* ------------------------------------------------------------ TerrainNode
\* the keys Profile::getAllKeysAtLOD returns: the tiles that have no parent
RootTiles == {t \in Tiles : tileParent[t] = NoTile}

\* a TerrainEngine that owns no tile yet: the registry as constructed, and
\* every tile of the tree gone
engineDropped ==
    /\ created' = {}
    /\ _tiles' = <<>>
    /\ _tracker' = <<Sentry>>
    /\ _updateData' = <<>>
    /\ _loadChildren' = <<>>
    /\ _loadElevation' = <<>>
    /\ _loadData' = <<>>
    /\ _mergeElevation' = <<>>
    /\ _mergeData' = <<>>
    /\ dataLoader' = [t \in Tiles |-> Empty]
    /\ dataMerger' = [t \in Tiles |-> Empty]
    /\ elevationLoader' = [t \in Tiles |-> Empty]
    /\ elevationMerger' = [t \in Tiles |-> Empty]
    /\ childrenLoader' = [t \in Tiles |-> Empty]
    /\ _needsChildren' = [t \in Tiles |-> FALSE]
    /\ _needsUpdate' = [t \in Tiles |-> FALSE]
    /\ children' = [t \in Tiles |-> FALSE]
    /\ pingLog' = {}
    /\ pingCount' = 0
    /\ jobs' = [t \in Tiles |-> [s \in Slots |-> 0]]
    /\ model' = [t \in Tiles |-> NoModel]
    /\ renderModel' = [t \in Tiles |-> [color |-> Inherited,
                                        elevation |-> Inherited,
                                        normal |-> Inherited]]
    /\ descriptorUpdates' = [t \in Tiles |-> 0]
    /\ canceled' = [t \in Tiles |-> FALSE]
    /\ canceledLoads' = {}
    /\ quad' = NoJob
    /\ afterOther

\* the tiles of the tree that have a slot in use
resolvedTiles ==
    {t \in created : dataLoader[t] # Empty \/ dataMerger[t] # Empty
                        \/ childrenLoader[t] # Empty}

\* TerrainNode::setMap(new_map, new_profile, context)
setMap(new_map) ==
    /\ IF ~new_map
       THEN UNCHANGED <<created, _tiles, _tracker, queueVars, slotVars,
                        _needsChildren, _needsUpdate, children, before,
                        pingLog, pingCount, jobs, disposed, modelVars,
                        canceled, canceledLoads, quad, terrainNode>>
       ELSE /\ terrainNode' = [terrainNode EXCEPT !.engine = FALSE,
                                                  !.children = 0,
                                                  !.tilesRoot = {},
                                                  !.status = "ok"]
            /\ engineDropped
    /\ lastCall' = [op |-> "setMap", new_map |-> new_map,
                    reopened |-> IF new_map THEN resolvedTiles ELSE {}]
    /\ UNCHANGED <<threadVars, application>>

\* reset that drops the engine and keeps the children
reset_engineOnly ==
    /\ terrainNode' = [terrainNode EXCEPT !.engine = FALSE, !.status = "ok"]
    /\ engineDropped
    /\ lastCall' = [op |-> "reset", reopened |-> resolvedTiles]
    /\ UNCHANGED <<threadVars, application>>

\* reset without the assignment of the status
reset_keepsStatus ==
    /\ terrainNode' = [terrainNode EXCEPT !.children = 0, !.tilesRoot = {},
                                          !.engine = FALSE]
    /\ engineDropped
    /\ lastCall' = [op |-> "reset", reopened |-> resolvedTiles]
    /\ UNCHANGED <<threadVars, application>>

\* TerrainNode::reset(context), the handler of onLayerAdded/onLayerRemoved
reset ==
    /\ terrainNode' = [terrainNode EXCEPT !.children = 0, !.tilesRoot = {},
                                          !.engine = FALSE, !.status = "ok"]
    /\ engineDropped
    /\ lastCall' = [op |-> "reset", reopened |-> resolvedTiles]
    /\ UNCHANGED <<threadVars, application>>

\* TerrainNode::createRootTiles(context): the node it leaves, the status it
\* returns, the tiles it has created, whether its hard assertion failed
createRootTiles(tn, stateFactoryFailed) ==
    IF tn.children # 0
    THEN [node |-> tn, status |-> tn.status, tiles |-> {}, asserted |-> TRUE]
    ELSE IF stateFactoryFailed
    THEN [node |-> [tn EXCEPT !.engine = TRUE], status |-> "failed",
          tiles |-> {}, asserted |-> FALSE]
    ELSE [node |-> [tn EXCEPT !.engine = TRUE, !.children = @ + 1,
                              !.tilesRoot = RootTiles],
          status |-> "ok", tiles |-> RootTiles, asserted |-> FALSE]

TerrainNode_updateCall_ignoresStatus(tn, stateFactoryFailed) ==
    IF tn.children = 0
    THEN LET r == createRootTiles(tn, stateFactoryFailed)
         IN [node |-> [r.node EXCEPT !.status = r.status],
             createRootTiles |-> TRUE, registry |-> FALSE,
             tiles |-> r.tiles, asserted |-> r.asserted, changes |-> TRUE]
    ELSE [node |-> tn, createRootTiles |-> FALSE, registry |-> TRUE,
          tiles |-> {}, asserted |-> ~tn.engine, changes |-> FALSE]

TerrainNode_updateCall_always(tn, stateFactoryFailed) ==
    IF tn.status = "ok"
    THEN LET r == createRootTiles(tn, stateFactoryFailed)
         IN [node |-> [r.node EXCEPT !.status = r.status],
             createRootTiles |-> TRUE, registry |-> FALSE,
             tiles |-> r.tiles, asserted |-> r.asserted, changes |-> TRUE]
    ELSE [node |-> tn, createRootTiles |-> FALSE, registry |-> FALSE,
          tiles |-> {}, asserted |-> FALSE, changes |-> FALSE]

\* TerrainNode::update(fs, io, context), the part that is the node's own:
\* the node it leaves, whether it entered createRootTiles, whether it calls
\* the registry's update, the tiles created, whether a hard assertion failed
TerrainNode_updateCall(tn, stateFactoryFailed) ==
    IF tn.status = "ok"
    THEN IF tn.children = 0
         THEN LET r == createRootTiles(tn, stateFactoryFailed)
              IN [node |-> [r.node EXCEPT !.status = r.status],
                  createRootTiles |-> TRUE, registry |-> FALSE,
                  tiles |-> r.tiles, asserted |-> r.asserted,
                  changes |-> TRUE]
         ELSE [node |-> tn, createRootTiles |-> FALSE, registry |-> TRUE,
               tiles |-> {}, asserted |-> ~tn.engine, changes |-> FALSE]
    ELSE [node |-> tn, createRootTiles |-> FALSE, registry |-> FALSE,
          tiles |-> {}, asserted |-> FALSE, changes |-> FALSE]

\* TerrainNode::update(fs, io, context); what engine->tiles.update returns is
\* not in the registry's source, so either value may come back
TerrainNode_update ==
    \E stateFactoryFailed \in BOOLEAN :
        LET r == TerrainNode_updateCall(terrainNode, stateFactoryFailed)
        IN /\ terrainNode' = r.node
           /\ IF r.registry
              THEN /\ updateBody
                   /\ \E changed \in BOOLEAN :
                          lastCall' = [op |-> "update",
                                       status |-> terrainNode.status,
                                       children |-> terrainNode.children,
                                       createRootTiles |-> r.createRootTiles,
                                       registry |-> TRUE,
                                       tiles |-> r.tiles,
                                       asserted |-> r.asserted,
                                       changes |-> changed]
              ELSE /\ created' = created \cup r.tiles
                   /\ UNCHANGED <<_tiles, _tracker, queueVars, slotVars,
                                  _needsChildren, _needsUpdate, children,
                                  pingLog, pingCount, jobs, modelVars,
                                  canceled, canceledLoads>>
                   /\ quad' = NoJob
                   /\ afterOther
                   /\ lastCall' = [op |-> "update",
                                   status |-> terrainNode.status,
                                   children |-> terrainNode.children,
                                   createRootTiles |-> r.createRootTiles,
                                   registry |-> FALSE,
                                   tiles |-> r.tiles,
                                   asserted |-> r.asserted,
                                   changes |-> r.changes]
           /\ UNCHANGED <<threadVars, application>>

\* TerrainNode::ping(tile, parent, nv): the tile is one of the engine's
TerrainNode_ping(tile) ==
    /\ terrainNode.engine
    /\ ping(tile)

\* a job or the traversal of one of the engine's root tiles
TerrainNode_dataLoadDone(tile) == terrainNode.engine /\ dataLoadDone(tile, FullModel)

TerrainNode_merge(tile) == terrainNode.engine /\ merge(tile)

TerrainNode_setNeedsChildren(tile) == terrainNode.engine /\ setNeedsChildren(tile)

NextTerrainNode ==
    \/ \E new_map \in BOOLEAN : setMap(new_map)
    \/ reset
    \/ TerrainNode_update
    \/ \E tile \in Tiles : TerrainNode_ping(tile)
    \/ \E tile \in created : TerrainNode_dataLoadDone(tile)
    \/ \E tile \in created : TerrainNode_merge(tile)
    \/ \E tile \in created : TerrainNode_setNeedsChildren(tile)

\* a TerrainNode that has its map and has not been updated: no tile exists
InitTerrainNode ==
    /\ created = {}
    /\ InitRegistry

SpecTerrainNode == InitTerrainNode /\ [][NextTerrainNode]_vars

\* TerrainNode::createRootTiles(context), called on its own: the status it
\* returns is not stored, and a failed hard assertion ends the call
TerrainNode_createRootTiles ==
    \E stateFactoryFailed \in BOOLEAN :
        LET r == createRootTiles(terrainNode, stateFactoryFailed)
        IN /\ terrainNode' = r.node
           /\ created' = created \cup r.tiles
           /\ lastCall' = [op |-> "createRootTiles",
                           children |-> terrainNode.children,
                           status |-> r.status, tiles |-> r.tiles,
                           asserted |-> r.asserted]
           /\ UNCHANGED <<_tiles, _tracker, queueVars, slotVars,
                          _needsChildren, _needsUpdate, children, pingLog,
                          pingCount, jobs, modelVars, canceled,
                          canceledLoads, threadVars, application>>
           /\ quad' = NoJob
           /\ afterOther

\* setMap, reset, createRootTiles and update in any order
NextTerrainNodeCalls ==
    \/ NextTerrainNode
    \/ TerrainNode_createRootTiles

SpecTerrainNodeCalls == InitTerrainNode /\ [][NextTerrainNodeCalls]_vars

\* ------------------------------------------------------------ Application
\* Application::add, Application::remove and the frame loop's
\* addAndRemoveObjects, statement by statement; the frame thread runs
\* addAndRemoveObjects, a user thread calls add and remove, and the job
\* scheduler completes the compile jobs
otherVars == <<created, _tiles, _tracker, queueVars, slotVars, _needsChildren,
               _needsUpdate, children, before, pingLog, pingCount, jobs,
               disposed, modelVars, canceled, canceledLoads, quad, threadVars,
               terrainNode, lastCall>>

\* the statement `std::scoped_lock(_add_remove_mutex);` names no lock object:
\* it either declares a lock that guards nothing, or builds a temporary that
\* takes the mutex and gives it back before the next statement
unnamed_scoped_lock(locks) ==
    locks => application._add_remove_mutex = NoThread

\* `std::scoped_lock L(_add_remove_mutex);`: L holds the mutex to the end of
\* its block
scoped_lock_L(th) ==
    /\ application._add_remove_mutex = NoThread
    /\ application' = [application EXCEPT
           !._add_remove_mutex = th,
           !.pc[th] = [at |-> "add_448", obj |-> application.pc[th].obj]]

\* add up to its block: the null check, the nodes of the attachments, the
\* compile closure over obj->root
add_begin(obj, isNull, root) ==
    /\ application.pc["user"] = Idle
    /\ application.future[obj] = Empty
    /\ IF isNull
       THEN UNCHANGED application
       ELSE application' = [application EXCEPT
                !.node[obj] = root,
                !.pc["user"] = [at |-> "add_447", obj |-> obj]]
    /\ UNCHANGED otherVars

\* add, line 447
add_lock ==
    /\ application.pc["user"].at = "add_447"
    /\ scoped_lock_L("user")
    /\ UNCHANGED otherVars

\* add, line 448 and the end of the block: the job is dispatched, its future
\* is appended, L is destroyed
add_emplace_back ==
    /\ application.pc["user"].at = "add_448"
    /\ LET obj == application.pc["user"].obj
       IN application' = [application EXCEPT
              !.future[obj] = Working,
              !._objectsToAdd = Append(@, obj),
              !._add_remove_mutex = NoThread,
              !.pc["user"] = Idle]
    /\ UNCHANGED otherVars

\* the compile job of an addition ends: its future holds Addition{my_node, cr}
compileNode(obj) ==
    /\ application.future[obj] = Working
    /\ application' = [application EXCEPT !.future[obj] = Available]
    /\ UNCHANGED otherVars

\* remove, lines 455..457
remove_begin(obj, isNull, locks) ==
    /\ application.pc["user"] = Idle
    /\ Len(application._objectsToRemove) < MaxRemove
    /\ IF isNull
       THEN UNCHANGED application
       ELSE /\ unnamed_scoped_lock(locks)
            /\ application' = [application EXCEPT
                   !.pc["user"] = [at |-> "remove_458", obj |-> obj]]
    /\ UNCHANGED otherVars

\* remove, line 458
remove_push_back ==
    /\ application.pc["user"].at = "remove_458"
    /\ application' = [application EXCEPT
           !._objectsToRemove = Append(@, application.pc["user"].obj),
           !.pc["user"] = Idle]
    /\ UNCHANGED otherVars

\* addAndRemoveObjects, line 320: the test of the two queues
addAndRemoveObjects_test ==
    /\ application.pc["frame"] = Idle
    /\ IF application._objectsToAdd # <<>> \/ application._objectsToRemove # <<>>
       THEN application' = [application EXCEPT
                !.pc["frame"] = [at |-> "aro_322"]]
       ELSE UNCHANGED application
    /\ UNCHANGED otherVars

\* addAndRemoveObjects, lines 322..324
addAndRemoveObjects_lock(locks) ==
    /\ application.pc["frame"].at = "aro_322"
    /\ unnamed_scoped_lock(locks)
    /\ application' = [application EXCEPT
           !.in_progress = <<>>,
           !.pc["frame"] = [at |-> "aro_327", i |-> 1]]
    /\ UNCHANGED otherVars

\* addAndRemoveObjects, lines 327..358: one turn of the loop over
\* _objectsToAdd, or its end
addAndRemoveObjects_loop ==
    /\ application.pc["frame"].at = "aro_327"
    /\ LET i == application.pc["frame"].i
           addition == application._objectsToAdd[i]
       IN IF i > Len(application._objectsToAdd)
          THEN application' = [application EXCEPT
                   !.pc["frame"] = [at |-> "aro_359"]]
          ELSE IF application.future[addition] = Available
                  /\ application.node[addition]
               THEN application' = [application EXCEPT
                        !.addChild[addition] = @ + 1,
                        !.children = @ \cup {addition},
                        !.pc["frame"].i = i + 1]
               ELSE application' = [application EXCEPT
                        !.in_progress = Append(@, addition),
                        !.pc["frame"].i = i + 1]
    /\ UNCHANGED otherVars

\* addAndRemoveObjects, line 359
addAndRemoveObjects_swap ==
    /\ application.pc["frame"].at = "aro_359"
    /\ application' = [application EXCEPT
           !._objectsToAdd = application.in_progress,
           !.in_progress = <<>>,
           !.pc["frame"] = [at |-> "aro_362"]]
    /\ UNCHANGED otherVars

\* addAndRemoveObjects, lines 362..373: one turn of the loop over
\* _objectsToRemove, or its end
addAndRemoveObjects_remove ==
    /\ application.pc["frame"].at = "aro_362"
    /\ IF application._objectsToRemove = <<>>
       THEN application' = [application EXCEPT !.pc["frame"] = Idle]
       ELSE application' = [application EXCEPT
                !.children = @ \ {Head(application._objectsToRemove)},
                !._objectsToRemove = Tail(@)]
    /\ UNCHANGED otherVars

NextApplication ==
    \/ \E obj \in Additions, isNull, root \in BOOLEAN :
           add_begin(obj, isNull, root)
    \/ add_lock
    \/ add_emplace_back
    \/ \E obj \in Additions : compileNode(obj)
    \/ \E obj \in Additions, isNull, locks \in BOOLEAN :
           remove_begin(obj, isNull, locks)
    \/ remove_push_back
    \/ addAndRemoveObjects_test
    \/ \E locks \in BOOLEAN : addAndRemoveObjects_lock(locks)
    \/ addAndRemoveObjects_loop
    \/ addAndRemoveObjects_swap
    \/ addAndRemoveObjects_remove

SpecApplication == InitKeys /\ [][NextApplication]_vars

\* ------------------------------------------------------------ properties
\* the tile is the one the map holds under its key
registered(tiles, t) ==
    tileKey(t) \in DOMAIN tiles /\ tiles[tileKey(t)]._tile = t

\* the tiles pinged before the update that has just returned
pinged == {e.tile : e \in before.pingLog}

\* the tiles the update that has just returned has evicted
evicted == {disposed[i].tile : i \in 1..Len(disposed)}

\* the update that has just returned dispatched a job for the slot
dispatched(t, slot) == jobs[t][slot] # before.jobs[t][slot]

\* C1: progressive gating.  Whenever an update has dispatched a data load
\* for a tile that has a parent, one of the pings since the previous update
\* saw the parent's dataMerger available; the same for an elevation load and
\* the parent's elevationMerger.
C1_ProgressiveGating ==
    before.valid =>
        \A t \in Tiles : tileParent[t] # NoTile =>
            /\ dispatched(t, "dataLoader") =>
                   \E e \in before.pingLog : e.tile = t /\ e.parentData
            /\ dispatched(t, "elevationLoader") =>
                   \E e \in before.pingLog : e.tile = t /\ e.parentElevation

\* an update has dispatched the data load of a tile that has a parent
C1_Witness ==
    /\ before.valid
    /\ \E t \in Tiles :
           /\ tileParent[t] # NoTile
           /\ dispatched(t, "dataLoader")
           /\ dataLoader[t] = Working

\* C2 as stated: whenever an update has dispatched a children load for a
\* tile, that tile's elevationMerger and dataMerger were both available.
C2_ChildrenNeedBothMergers ==
    before.valid =>
        \A t \in Tiles : dispatched(t, "childrenLoader") =>
            /\ elevationMerger[t] = Available
            /\ before.dataMerger[t] = Available

\* C2, amended: whenever an update has dispatched a children load for a
\* tile, that tile's dataMerger was available when the update started.
C2_ChildrenNeedDataMerger ==
    before.valid =>
        \A t \in Tiles : dispatched(t, "childrenLoader") =>
            before.dataMerger[t] = Available

\* an update has dispatched a children load
C2_Witness ==
    /\ before.valid
    /\ \E t \in Tiles :
           dispatched(t, "childrenLoader") /\ childrenLoader[t] = Working

\* the state of a slot when the update that has just returned started
slotBefore(t, slot) ==
    CASE slot = "dataLoader" -> before.dataLoader[t]
      [] slot = "dataMerger" -> before.dataMerger[t]
      [] slot = "childrenLoader" -> before.childrenLoader[t]
      [] slot = "elevationLoader" -> elevationLoader[t]
      [] slot = "elevationMerger" -> elevationMerger[t]

\* C3: at most one job per slot.  An update dispatches at most one job for
\* any slot of any tile, however often the tile was pinged before it, only for
\* a slot that was empty, and only for a tile pinged since the previous
\* update (so further updates without pings dispatch nothing).
C3_AtMostOneJobPerSlot ==
    before.valid =>
        \A t \in Tiles : \A slot \in Slots :
            /\ jobs[t][slot] <= before.jobs[t][slot] + 1
            /\ dispatched(t, slot) =>
                   /\ slotBefore(t, slot) = Empty
                   /\ t \in pinged

\* a tile was queued twice for a data load and one job was dispatched
C3_Witness ==
    /\ before.valid
    /\ \E t \in Tiles :
           /\ Len(before._loadData) >= 2
           /\ before._loadData[1] = tileKey(t)
           /\ before._loadData[2] = tileKey(t)
           /\ dispatched(t, "dataLoader")
           /\ dataLoader[t] = Working

\* C4: eviction of unpinged tiles.  A tile that was registered when an
\* update started, is not doNotExpire and was not pinged since the previous
\* update is not in the map when the update returns.
C4_UnpingedEvicted ==
    before.valid =>
        \A t \in Tiles :
            (/\ registered(before._tiles, t)
             /\ ~doNotExpire[t]
             /\ t \notin pinged)
            => tileKey(t) \notin DOMAIN _tiles

\* an update has evicted a registered tile that was not pinged
C4_Witness ==
    /\ before.valid
    /\ \E t \in Tiles :
           /\ registered(before._tiles, t)
           /\ ~doNotExpire[t]
           /\ t \notin pinged
           /\ tileKey(t) \notin DOMAIN _tiles

\* C5: retention of pinged tiles.  A tile that was pinged since the previous
\* update keeps its map entry and its tracker entry through the update.
C5_PingedRetained ==
    before.valid =>
        \A t \in pinged :
            /\ registered(before._tiles, t)
            /\ registered(_tiles, t)
            /\ _tiles[tileKey(t)] = before._tiles[tileKey(t)]
            /\ t \in Range(_tracker)

\* a pinged tile that can expire was kept by an update that evicted another
C5_Witness ==
    /\ before.valid
    /\ evicted # {}
    /\ \E t \in pinged :
           /\ ~doNotExpire[t]
           /\ t \in Range(before._tracker)
           /\ Untouched(before._tracker) # <<>>
           /\ registered(_tiles, t)

\* C6: a registered doNotExpire tile keeps its map entry and its tracker
\* entry through every update, pinged or not.
C6_DoNotExpireKept ==
    before.valid =>
        \A t \in Tiles :
            (doNotExpire[t] /\ registered(before._tiles, t)) =>
                /\ registered(_tiles, t)
                /\ t \in Range(_tracker)

\* a doNotExpire tile that was not pinged has been kept by an update
C6_Witness ==
    /\ before.valid
    /\ \E t \in Tiles :
           /\ doNotExpire[t]
           /\ registered(before._tiles, t)
           /\ t \notin pinged
           /\ registered(_tiles, t)

\* the parent key of the i-th evicted tile was registered when it was
\* disposed: it was registered when the update started and has not been
\* evicted earlier in the same flush
parentRegistered(i) ==
    LET parentKey == createParentKey(tileKey(disposed[i].tile))
    IN /\ parentKey \in DOMAIN before._tiles
       /\ \A j \in 1..(i - 1) : tileKey(disposed[j].tile) # parentKey

\* C7: when an update evicts a tile, the tile's key is out of the map when
\* the update returns, and if the parent key was registered when the tile
\* was disposed the parent has dropped its child link.
C7_EvictionUnlinks ==
    before.valid =>
        \A i \in 1..Len(disposed) :
            LET parentKey == createParentKey(tileKey(disposed[i].tile))
            IN /\ tileKey(disposed[i].tile) \notin DOMAIN _tiles
               /\ parentRegistered(i) =>
                      ~children[before._tiles[parentKey]._tile]

\* an update has evicted a tile whose registered parent had its children
\* attached
C7_Witness ==
    /\ before.valid
    /\ \E i \in 1..Len(disposed) :
           LET parentKey == createParentKey(tileKey(disposed[i].tile))
           IN /\ parentRegistered(i)
              /\ before.children[before._tiles[parentKey]._tile]
              /\ ~children[before._tiles[parentKey]._tile]

\* an update has evicted a tile whose parent key was not registered
C7_WitnessNoParent ==
    /\ before.valid
    /\ \E i \in 1..Len(disposed) :
           /\ tileParent[disposed[i].tile] # NoTile
           /\ ~parentRegistered(i)
           /\ tileKey(disposed[i].tile) \notin DOMAIN _tiles

\* C8: an update changes the map and the tracker only for the tiles it
\* evicts: every other tile that had a map entry keeps it unchanged, and
\* every other tile that had a tracker entry keeps it.
C8_EvictionIsLocal ==
    before.valid =>
        \A u \in Tiles \ evicted :
            /\ tileKey(u) \in DOMAIN before._tiles =>
                   /\ tileKey(u) \in DOMAIN _tiles
                   /\ _tiles[tileKey(u)] = before._tiles[tileKey(u)]
            /\ u \in Range(before._tracker) => u \in Range(_tracker)

\* an update has evicted a tile and kept its registered sibling
C8_Witness ==
    /\ before.valid
    /\ \E t \in evicted : \E u \in Tiles \ evicted :
           /\ u # t
           /\ tileParent[u] = tileParent[t]
           /\ registered(before._tiles, u)
           /\ registered(_tiles, u)
           /\ u \in Range(_tracker)

\* an update has evicted a tile and kept its registered child
C8_WitnessChild ==
    /\ before.valid
    /\ \E t \in evicted : \E u \in Tiles \ evicted :
           /\ tileParent[u] = t
           /\ registered(before._tiles, u)
           /\ registered(_tiles, u)
           /\ u \in Range(_tracker)

\* C9 as stated: when an update has returned, all six work queues are
\* empty.
C9_QueuesEmptyAfterUpdate ==
    before.valid =>
        /\ _updateData = <<>>
        /\ _loadChildren = <<>>
        /\ _loadElevation = <<>>
        /\ _loadData = <<>>
        /\ _mergeElevation = <<>>
        /\ _mergeData = <<>>

\* C10: if a ping since the previous update saw the tile with _needsChildren
\* set, an empty childrenLoader and its data merged (which in this build is
\* also its elevation), the update dispatches exactly one children-load job
\* for the tile and leaves _needsChildren false.
C10_OneChildrenLoad ==
    before.valid =>
        \A e \in before.pingLog :
            (/\ e._needsChildren
             /\ e.childrenLoader = Empty
             /\ e.dataMerger = Available)
            => /\ jobs[e.tile]["childrenLoader"] =
                      before.jobs[e.tile]["childrenLoader"] + 1
               /\ ~_needsChildren[e.tile]

\* an update has served a tile that was pinged twice while it needed
\* children
C10_Witness ==
    /\ before.valid
    /\ \E e \in before.pingLog :
           /\ e._needsChildren
           /\ e.childrenLoader = Empty
           /\ e.dataMerger = Available
           /\ Len(before._loadChildren) >= 2
           /\ before._loadChildren[1] = tileKey(e.tile)
           /\ before._loadChildren[2] = tileKey(e.tile)
           /\ childrenLoader[e.tile] = Working

slotStep(from, to) ==
    \/ to = from
    \/ from = Empty /\ to = Working
    \/ from = Working /\ to = Available

\* C12: slot monotonicity.  Under any interleaving of ping, update, job
\* completion, merge execution and eviction, every slot of every tile only
\* moves Empty -> Working -> Available and never back.
C12_SlotMonotonic ==
    [][\A t \in Tiles :
           /\ slotStep(dataLoader[t], dataLoader'[t])
           /\ slotStep(dataMerger[t], dataMerger'[t])
           /\ slotStep(elevationLoader[t], elevationLoader'[t])
           /\ slotStep(elevationMerger[t], elevationMerger'[t])
           /\ slotStep(childrenLoader[t], childrenLoader'[t])]_vars

\* a tile has gone all the way in three slots and has been evicted since
C12_Witness ==
    \E t \in created :
        /\ dataLoader[t] = Available
        /\ dataMerger[t] = Available
        /\ childrenLoader[t] = Available
        /\ tileKey(t) \notin DOMAIN _tiles

\* C13, as stated: a tile's data merge is never scheduled, and never becomes
\* available, before that tile's elevation merge is available.
C13_ElevationMergeFirst ==
    \A t \in Tiles : dataMerger[t] # Empty => elevationMerger[t] = Available

\* C13, amended: within one tile the order is data, then children, and the
\* elevation is part of the data.  A data merge exists only for a tile whose
\* data load is available; it installs the model's elevation together with its
\* imagery, so the imagery is never installed without the elevation loaded
\* with it; children are dispatched only once the data merge is available; the
\* elevationMerger stays Empty.
C13_DataCarriesElevation ==
    \A t \in Tiles :
        /\ dataMerger[t] # Empty => dataLoader[t] = Available
        /\ (renderModel[t].color = Loaded /\ model[t].heightfield)
               => renderModel[t].elevation = Loaded
        /\ jobs[t]["childrenLoader"] > 0 => dataMerger[t] = Available
        /\ elevationMerger[t] = Empty

\* a tile shows its own imagery and elevation and has had its children
\* dispatched, with no elevation merge ever made
C13_Witness ==
    \E t \in created :
        /\ renderModel[t].color = Loaded
        /\ renderModel[t].elevation = Loaded
        /\ jobs[t]["childrenLoader"] > 0
        /\ elevationMerger[t] = Empty

\* C15: in one update pass at most one merge operation, elevation or data,
\* is scheduled for any one tile.
C15_OneMergePerTile ==
    before.valid =>
        \A t \in Tiles :
            (jobs[t]["dataMerger"] - before.jobs[t]["dataMerger"])
            + (jobs[t]["elevationMerger"] - before.jobs[t]["elevationMerger"])
                <= 1

\* an update found a tile's key twice in _mergeData and scheduled its merge
C15_Witness ==
    /\ before.valid
    /\ \E t \in created :
           /\ dispatched(t, "dataMerger")
           /\ Cardinality({i \in 1..Len(before._mergeData) :
                               before._mergeData[i] = tileKey(t)}) >= 2

\* C16: within one update pass the queues are drained in the order
\* updateData, loadChildren, loadElevation, loadData, mergeElevation,
\* mergeData, and the tracker flush runs after all of them.
C16_DrainOrder ==
    before.valid =>
        before.drained = <<"_updateData", "_loadChildren", "_loadElevation",
                           "_loadData", "_mergeElevation", "_mergeData",
                           "flush">>

\* C17: a tile whose data load produced an empty model stays behind its
\* load-pending gate: its data merge slot does not become available, its
\* children are never requested, and no second load is dispatched for it.
C17_EmptyModelStaysPending ==
    \A t \in Tiles :
        (dataLoader[t] = Available /\ model[t] = EmptyModel
         /\ t \notin canceledLoads)
        => /\ dataMerger[t] # Available
           /\ jobs[t]["childrenLoader"] = 0
           /\ jobs[t]["dataLoader"] <= 1

fullQuad(parent) ==
    [node |-> TRUE,
     children |-> [q \in 1..4 |-> createChildKey(tileKey(parent), q - 1)]]

\* C19: the children-load job yields no node at all or a quad group of
\* exactly four child tiles, the one of quadrant q having key
\* createChildKey(q); it yields no node whenever cancellation is observed at
\* some quadrant or createTile returns null for one, and the full quad
\* otherwise.
C19_AllOrNothing ==
    quad.ended =>
        /\ quad.result = NoNode \/ quad.result = fullQuad(quad.parent)
        /\ (quad.canceledFrom < 4 \/ quad.nullAt < 4 \/ ~quad.alive)
               => quad.result = NoNode
        /\ (quad.canceledFrom = 4 /\ quad.nullAt = 4 /\ quad.alive)
               => quad.result = fullQuad(quad.parent)

\* the job was canceled, or createTile failed, after two children were made
C19_Witness ==
    /\ quad.ended
    /\ quad.alive
    /\ \/ quad.canceledFrom = 2 /\ quad.nullAt = 4
       \/ quad.canceledFrom = 4 /\ quad.nullAt = 2
    /\ quad.result = NoNode

\* the job ran to its end and returned the four children
C19_WitnessQuad ==
    /\ quad.ended
    /\ quad.result.node
    /\ Len(quad.result.children) = 4

\* the render model a tile is created with
createdRenderModel ==
    [color |-> Inherited, elevation |-> Inherited, normal |-> Inherited]

\* C20: when the loaded model has no color layer, no valid heightfield and no
\* valid normal map, the data merge leaves the tile's render model as it was
\* and does not update its descriptors, and the merge operation completes.
C20_EmptyMergeChangesNothing ==
    \A t \in Tiles :
        (dataLoader[t] = Available /\ model[t] = EmptyModel)
        => /\ renderModel[t] = createdRenderModel
           /\ descriptorUpdates[t] = 0
           /\ dataMerger[t] = Working => ENABLED merge(t)

\* the merge of the root, which is registered and never released, has run on
\* an empty model
C20_Witness ==
    /\ model["R"] = EmptyModel
    /\ dataMerger["R"] = Available
    /\ registered(_tiles, "R")

\* the thread is between the first and the last statement of ping
inPing(th) == pc[th].at \in {"ping_60", "ping_72"}

\* the thread is inside update's sweep
inUpdate(th) == pc[th].at \in {"update_149", "update_247"}

\* C14: ping and update are mutually exclusive on the registry; while one
\* thread is inside update's sweep or inside a ping, no other thread is
\* inside a ping.
C14_MutualExclusion ==
    \A a \in Threads : \A b \in Threads \ {a} :
        (inPing(a) \/ inUpdate(a)) => ~inPing(b)

\* C21: if createRootTiles returns a failed status, the TerrainNode's status
\* is failed and no root tile has been created; every later update returns
\* false, enters neither createRootTiles nor the registry's update and
\* creates no tile; the status leaves failed only in a setMap or a reset.
C21_FailedStatusHalts ==
    [][/\ terrainNode'.status = "failed"
          => /\ terrainNode'.tilesRoot = {}
             /\ terrainNode'.children = 0
             /\ created' = {}
       /\ (lastCall'.op = "update" /\ lastCall'.status = "failed")
          => /\ ~lastCall'.changes
             /\ ~lastCall'.registry
             /\ ~lastCall'.createRootTiles
             /\ lastCall'.tiles = {}
             /\ terrainNode'.status = "failed"
       /\ (terrainNode.status = "failed" /\ terrainNode'.status # "failed")
          => lastCall'.op \in {"setMap", "reset"}]_vars

\* an update has returned that was called while the status was failed
C21_Witness ==
    /\ lastCall.op = "update"
    /\ lastCall.status = "failed"
    /\ terrainNode.engine

\* a slot of some tile is in use before the step and Empty after it
slotReopened ==
    \E t \in Tiles :
        \/ dataLoader[t] # Empty /\ dataLoader'[t] = Empty
        \/ dataMerger[t] # Empty /\ dataMerger'[t] = Empty
        \/ childrenLoader[t] # Empty /\ childrenLoader'[t] = Empty
        \/ elevationLoader[t] # Empty /\ elevationLoader'[t] = Empty
        \/ elevationMerger[t] # Empty /\ elevationMerger'[t] = Empty

\* a reset leaves no children, no engine and an OK status
resetLeavesEmptyTree ==
    lastCall'.op = "reset"
    => /\ terrainNode'.children = 0
       /\ ~terrainNode'.engine
       /\ terrainNode'.status = "ok"

\* C22 as stated: slots are re-opened only by a full tree reset; after a
\* reset the TerrainNode has no children, no engine and an OK status, and the
\* next update rebuilds the root tiles from scratch.
C22_NextUpdateRebuilds ==
    [][/\ resetLeavesEmptyTree
       /\ (lastCall.op = "reset" /\ lastCall'.op = "update")
          => /\ terrainNode'.tilesRoot = RootTiles
             /\ created' = RootTiles
       /\ slotReopened => lastCall'.op \in {"reset", "setMap"}]_vars

\* C22, amended: slots are re-opened only by a full tree reset, which is a
\* reset or a setMap with a map; after a reset the TerrainNode has no
\* children, no engine and an OK status, and the next update enters
\* createRootTiles, which builds the root tiles from scratch, with every slot
\* Empty and nothing registered, unless the engine's state factory has
\* failed, in which case no tile is created and the status is failed.
C22_NextUpdateEntersCreateRootTiles ==
    [][/\ resetLeavesEmptyTree
       /\ (lastCall.op = "reset" /\ lastCall'.op = "update")
          => /\ lastCall'.createRootTiles
             /\ ~lastCall'.registry
             /\ IF terrainNode'.status = "ok"
                THEN /\ terrainNode'.tilesRoot = RootTiles
                     /\ created' = RootTiles
                     /\ resolvedTiles' = {}
                     /\ _tiles' = <<>>
                ELSE /\ terrainNode'.tilesRoot = {}
                     /\ created' = {}
       /\ slotReopened
          => \/ lastCall'.op = "reset"
             \/ lastCall'.op = "setMap" /\ lastCall'.new_map]_vars

\* a reset has just re-opened the slots of a tile
C22_Witness ==
    /\ lastCall.op = "reset"
    /\ lastCall.reopened # {}
    /\ dataLoader["R"] = Empty

\* C23: in every sequence of setMap, reset and update calls, createRootTiles
\* is entered only when the TerrainNode's children list is empty, so its hard
\* assertion never fails.
C23_RootTilesOnlyWhenEmpty ==
    (lastCall.op = "update" /\ lastCall.createRootTiles)
    => /\ lastCall.children = 0
       /\ ~lastCall.asserted

\* createRootTiles has been entered and has built the tree
C23_Witness ==
    /\ lastCall.op = "update"
    /\ lastCall.createRootTiles
    /\ terrainNode.children = 1
    /\ terrainNode.tilesRoot = RootTiles

\* C24: a call of requestLoadChildren, requestLoadData, requestMergeData,
\* requestLoadElevation or requestMergeElevation with a null tile dispatches
\* no job and changes no registry or tile state.
C24_NullTileNoOp ==
    (lastCall.op \in Requests /\ lastCall.tile = NoTile)
    => /\ ~lastCall.dispatched
       /\ ~lastCall.changed

\* a request with a null tile has returned while a load could have been
\* dispatched for the root
C24_Witness ==
    /\ lastCall.op = "requestLoadData"
    /\ lastCall.tile = NoTile
    /\ registered(_tiles, "R")
    /\ dataLoader["R"] = Empty

C26_LoadDispatchedByNextUpdate ==
    before.valid
    => \A e \in before.pingLog :
           (/\ e.dataLoader = Empty
            /\ tileParent[e.tile] = NoTile \/ e.parentData)
           => /\ dataLoader[e.tile] = Working
              /\ dispatched(e.tile, "dataLoader")

\* an update has dispatched the load of the root and, a frame later, of a
\* child pinged below its merged parent
C26_Witness ==
    /\ before.valid
    /\ \E e \in before.pingLog :
           /\ e.tile = "A"
           /\ e.dataLoader = Empty
           /\ e.parentData
    /\ dataLoader["A"] = Working
    /\ dataMerger["R"] = Available

C28_SiblingsExpireTogether ==
    before.valid
    => \A a \in created : \A b \in created :
           (/\ tileParent[a] # NoTile
            /\ tileParent[a] = tileParent[b]
            /\ registered(before._tiles, a)
            /\ registered(before._tiles, b)
            /\ a \in pinged <=> b \in pinged)
           => (a \in evicted => b \in evicted)

\* one update has evicted both registered children of the root
C28_Witness ==
    /\ before.valid
    /\ registered(before._tiles, "A")
    /\ registered(before._tiles, "B")
    /\ {"A", "B"} \subseteq evicted
    /\ tileKey("A") \notin DOMAIN _tiles
    /\ tileKey("B") \notin DOMAIN _tiles

\* the priorities of two live tiles have been computed
twoLivePriorities ==
    /\ lastCall.op = "priority_func"
    /\ lastCall.a.alive
    /\ lastCall.b.alive

\* C29 as stated: load priority is -(sqrt(lastTraversalRange) *
\* levelOfDetail); of two live tiles at the same level of detail greater
\* than 0 the closer one gets the more negative priority value, and of two
\* tiles at the same range the one with the higher level of detail gets the
\* more negative value.
C29_CloserMoreNegative ==
    twoLivePriorities
    => LET a == lastCall.a
           b == lastCall.b
       IN /\ (/\ a.levelOfDetail = b.levelOfDetail
              /\ a.levelOfDetail > 0
              /\ a.lastTraversalRange < b.lastTraversalRange)
             => lastCall.priority_a < lastCall.priority_b
          /\ (/\ a.lastTraversalRange = b.lastTraversalRange
              /\ a.levelOfDetail > b.levelOfDetail)
             => lastCall.priority_a < lastCall.priority_b

\* C29, amended: load priority is -(sqrt(lastTraversalRange) *
\* levelOfDetail); of two live tiles at the same level of detail greater
\* than 0 the closer one gets the less negative (greater) priority value, and
\* of two live tiles at the same range greater than 0 the one with the higher
\* level of detail gets the more negative value; at range 0 or level 0 the
\* value is 0.
C29_FartherMoreNegative ==
    twoLivePriorities
    => LET a == lastCall.a
           b == lastCall.b
       IN /\ lastCall.priority_a
                 = -(sqrt(a.lastTraversalRange) * a.levelOfDetail)
          /\ (/\ a.levelOfDetail = b.levelOfDetail
              /\ a.levelOfDetail > 0
              /\ a.lastTraversalRange < b.lastTraversalRange)
             => lastCall.priority_a > lastCall.priority_b
          /\ (/\ a.lastTraversalRange = b.lastTraversalRange
              /\ a.lastTraversalRange > 0
              /\ a.levelOfDetail > b.levelOfDetail)
             => lastCall.priority_a < lastCall.priority_b
          /\ (a.lastTraversalRange = 0 \/ a.levelOfDetail = 0)
             => lastCall.priority_a = 0

\* two live tiles at level 2, at ranges 1 and 9: the closer one has the
\* priority value -2, the farther one -6
C29_Witness ==
    /\ twoLivePriorities
    /\ lastCall.a.levelOfDetail = 2
    /\ lastCall.b.levelOfDetail = 2
    /\ lastCall.a.lastTraversalRange = 1
    /\ lastCall.b.lastTraversalRange = 9
    /\ lastCall.priority_a = -2
    /\ lastCall.priority_b = -6

\* the tracker's entries, the sentry left out
trackerEntries == SelectSeq(_tracker, LAMBDA e : e # Sentry)

\* C30: after any sequence of ping, update and releaseAll the key->tile map
\* and the tracker hold the same set of tiles, with exactly one tracker entry
\* per registered key; the first ping of a key inserts one map entry and one
\* tracker entry, later pings of a registered key only refresh the existing
\* tracker entry, and an eviction removes both.
C30_MapAndTrackerAgree ==
    /\ Range(trackerEntries) = {_tiles[k]._tile : k \in DOMAIN _tiles}
    /\ Len(trackerEntries) = Cardinality(DOMAIN _tiles)
    /\ \A k \in DOMAIN _tiles :
           /\ tileKey(_tiles[k]._tile) = k
           /\ Cardinality({i \in 1..Len(_tracker) :
                              _tracker[i] = _tiles[k]._trackerToken}) = 1
    /\ Cardinality({i \in 1..Len(_tracker) : _tracker[i] = Sentry}) = 1

\* a releaseAll has emptied a registry that held the root and a child
C30_Witness ==
    /\ lastCall.op = "releaseAll"
    /\ lastCall.released = {tileKey("R"), tileKey("A")}
    /\ _tiles = <<>>
    /\ _tracker = <<Sentry>>

\* the root has been pinged back in after a releaseAll and a child has
\* then been evicted
C30_WitnessEvicted ==
    /\ lastCall.op = "releaseAll"
    /\ before.valid
    /\ "A" \in evicted
    /\ registered(_tiles, "R")

\* C31: a tile enters the key->tile map only through its first ping;
\* createTile does not register the tile it returns, so getTile(k) returns
\* null for a tile that was created and never pinged, and returns the tile
\* registered by the first ping of key k from that ping until the tile is
\* evicted or releaseAll is called.
C31_RegisteredByFirstPing ==
    [][\A t \in Tiles :
           LET k == tileKey(t)
           IN /\ t \notin created => getTile(k) = NoTile
              /\ (t \notin created /\ t \in created') => getTile(k)' = NoTile
              /\ (getTile(k) = NoTile /\ getTile(k)' # NoTile)
                 => /\ pingCount' = pingCount + 1
                    /\ getTile(k)' \in {e.tile : e \in pingLog'}
                    /\ tileKey(getTile(k)') = k
              /\ (getTile(k) = t /\ getTile(k)' # t)
                 => /\ getTile(k)' = NoTile
                    /\ \/ before'.valid /\ t \in evicted'
                       \/ /\ lastCall'.op = "releaseAll"
                          /\ k \in lastCall'.released
                          /\ _tracker' = <<Sentry>>]_vars

\* the root is registered and has been through an update, while a child
\* that createTile has returned is not in the map
C31_Witness ==
    /\ before.valid
    /\ evicted = {}
    /\ lastCall = NoCall
    /\ getTile(tileKey("R")) = "R"
    /\ "A" \in created
    /\ getTile(tileKey("A")) = NoTile

\* C32: no thread blocks forever on the registry mutex; a merge operation
\* scheduled by requestMergeData, which locks the mutex in getTile, is never
\* executed while the update call that scheduled it, or any other holder on
\* the same thread, holds the mutex: merges run on the frame thread after the
\* registry update has returned.
C32_MergeOutsideUpdate ==
    [][/\ \A th \in Threads :
              pc[th].at = "merge_464" => (_mutex = NoThread /\ ~inUpdate(th))
       /\ \A t \in Tiles :
              (dataMerger[t] # Available /\ dataMerger'[t] = Available)
              => /\ _mutex = NoThread
                 /\ pc["frame"].at = "merge_464"
                 /\ pc["frame"].tile = t
       /\ \A t \in Tiles :
              (dataMerger[t] = Empty /\ dataMerger'[t] # Empty)
              => (_mutex = "frame" /\ dataMerger'[t] = Working)]_vars

\* the frame thread has left the update that scheduled the merge of the root
\* and is in the merge, at getTile, with the mutex free
C32_Witness ==
    /\ pc["frame"].at = "merge_464"
    /\ pc["frame"].tile = "R"
    /\ dataMerger["R"] = Working
    /\ jobs["R"]["dataMerger"] = 1
    /\ _mutex = NoThread

\* the number of entries of the queue that hold the key
occurrences(queue, key) ==
    Cardinality({i \in 1..Len(queue) : queue[i] = key})

\* C33: in an update pass a tile's update hook is invoked once for every
\* ping of that tile made with needsUpdate set since the previous update (k
\* pings give k invocations), and never for a tile that was not pinged with
\* needsUpdate set since the previous update: every such ping appends the
\* tile's key to the queue, nothing else does, and the update invokes the
\* hook once per entry and empties the queue.
C33_HookOncePerPing ==
    [][/\ pingCount' = pingCount + 1
          => LET tile == _tracker'[1]
             IN _updateData' = IF _needsUpdate[tile]
                               THEN Append(_updateData, tileKey(tile))
                               ELSE _updateData
       /\ (pingCount' = pingCount /\ ~before'.valid)
          => _updateData' = _updateData
       /\ before'.valid
          => /\ _updateData' = <<>>
             /\ \A t \in Tiles :
                    before'.updates[t]
                        = occurrences(before'._updateData, tileKey(t))]_vars

\* an update has invoked the hook of a child twice, for its two pings, and
\* not at all for the root
C33_Witness ==
    /\ before.valid
    /\ before.updates["A"] = 2
    /\ before.updates["R"] = 0
    /\ before._updateData = <<tileKey("A"), tileKey("A")>>

\* the key->tile map, the tracker and the six work queues are empty
emptyRegistry ==
    /\ _tiles = <<>>
    /\ _tracker = <<Sentry>>
    /\ _updateData = <<>>
    /\ _loadChildren = <<>>
    /\ _loadElevation = <<>>
    /\ _loadData = <<>>
    /\ _mergeElevation = <<>>
    /\ _mergeData = <<>>

\* C34: releaseAll empties the key->tile map, the tracker and all six work
\* queues; after it getTile returns null for every key, and an update with
\* no ping in between dispatches no load or merge, invokes no update hook
\* and evicts nothing.
C34_ReleaseAllEmpties ==
    [][/\ (lastCall'.op = "releaseAll" /\ pingCount' = pingCount
           /\ ~before'.valid)
          => /\ emptyRegistry'
             /\ \A t \in Tiles : getTile(tileKey(t))' = NoTile
       /\ (emptyRegistry /\ before'.valid)
          => /\ jobs' = jobs
             /\ UNCHANGED slotVars
             /\ disposed' = <<>>
             /\ \A t \in Tiles : before'.updates[t] = 0
             /\ emptyRegistry']_vars

\* an update has run on the registry that releaseAll emptied while the load
\* of the root was under way, and has dispatched nothing
C34_Witness ==
    /\ lastCall.op = "releaseAll"
    /\ lastCall.released # {}
    /\ before.valid
    /\ before._tiles = <<>>
    /\ dataLoader["R"] = Working
    /\ jobs = before.jobs
    /\ emptyRegistry

\* C35: in every reachable state of a TerrainNode under setMap, reset,
\* createRootTiles and update, a non-empty children list implies a non-null
\* engine, so the hard assertion on the engine in update never fails and the
\* registry's update is only called on a live engine.
C35_ChildrenImplyEngine ==
    /\ terrainNode.children # 0 => terrainNode.engine
    /\ (lastCall.op = "update" /\ lastCall.registry)
       => /\ ~lastCall.asserted
          /\ lastCall.children # 0
          /\ terrainNode.engine

\* an update has called the registry's update, on the engine of a tree that
\* has been built
C35_Witness ==
    /\ lastCall.op = "update"
    /\ lastCall.registry
    /\ terrainNode.children = 1
    /\ terrainNode.engine
    /\ before.valid

\* the thread is at a statement that reads or modifies _objectsToAdd or
\* _objectsToRemove
inQueues(th) ==
    application.pc[th].at \in
        {"add_448", "remove_458", "aro_327", "aro_359", "aro_362"}

\* C36 as stated: add, remove and addAndRemoveObjects never access the
\* pending-addition and pending-removal queues at the same time: a thread
\* that is reading or modifying the queues holds _add_remove_mutex, so no two
\* threads are in the queues together.
C36_QueuesUnderMutex ==
    /\ ~(inQueues("frame") /\ inQueues("user"))
    /\ \A th \in {"frame", "user"} :
           inQueues(th) => application._add_remove_mutex = th

\* the addition's future has been appended to _objectsToAdd by add
emplaced(obj) == application.future[obj] # Empty

\* the addition is in the pending list, or in the list that is about to
\* replace it
pendingAddition(obj) ==
    \/ obj \in Range(application._objectsToAdd)
    \/ obj \in Range(application.in_progress)

\* C37 as stated: an addition is attached to the map node at most once, an
\* attached addition is off the pending list once addAndRemoveObjects has
\* returned, and an addition that add has queued and that has not been
\* attached is still pending: it is never dropped.
C37_AttachedOnceNeverDropped ==
    \A obj \in Additions :
        /\ application.addChild[obj] <= 1
        /\ (application.addChild[obj] = 1 /\ application.pc["frame"] = Idle)
               => obj \notin Range(application._objectsToAdd)
        /\ (emplaced(obj) /\ application.addChild[obj] = 0)
               => pendingAddition(obj)

====
